---- MODULE Spec2Model ----
(***************************************************************************)
(* NodaDB data-access core: the connection registry (ConnectionManager,    *)
(* src-tauri/src/database/mod.rs).                                         *)
(*                                                                         *)
(* The registry is a HashMap<String, DatabasePool> behind a                *)
(* tokio::sync::RwLock.  Every operation is an async fn run by a task;     *)
(* each .await is a point where other tasks may run, so each action below  *)
(* is the code between two awaits.  A read or write guard lives until the  *)
(* end of the function that took it (Rust drops it at scope exit), and     *)
(* `pool` borrows from the guard, so the guard is held across the engine   *)
(* calls that follow the lookup.                                           *)
(*                                                                         *)
(* The SSH tunnel (src-tauri/src/ssh_tunnel.rs) is modelled next to it:    *)
(* SshTunnel::connect, the accept loop it spawns, the per-connection       *)
(* workers and the drop of the SshTunnel, as OS threads that share the     *)
(* `running` flag and the session mutex.                                   *)
(***************************************************************************)
EXTENDS Integers, Sequences, FiniteSets, TLC

\* ------------------------------------------------------------- bounds
\* Number of concurrent tasks calling the registry: in the lifecycle and
\* operations workloads, and in the locking workload.
ApiTasks == 2
OpsTasks == 1
LockTasks == 3
\* Number of distinct connection ids the callers use.
NumIds == 2
\* Number of pools that can be open at the same time.
MaxPools == 3
\* Number of catalog rows of a listing that each cause a follow-up statement
\* (SQLite: COUNT(*) per table, PRAGMA index_info per index).
MaxRows == 1
\* Length of the string values callers put into rows.
MaxStrLen == 2
\* Number of rows in one bulk insert.
MaxBulk == 2
\* Number of columns and of rows in a result set the engine returns.
MaxCols == 2
MaxResultRows == 2
\* Number of nodes in a plan the engine returns.
MaxPlanNodes == 3
\* Number of statements in a transaction, and of tasks in its workload.
MaxQueries == 3
TxTasks == 2
\* Number of local connections made to the tunnel's listener.
MaxConns == 3

Tasks == 1 .. (IF LockTasks > ApiTasks THEN LockTasks ELSE ApiTasks)
ConnIds == 1 .. NumIds
PoolIds == 1 .. MaxPools

\* ------------------------------------------------------------- types
DatabaseType == {"SQLite", "PostgreSQL", "MySQL"}

NoTask == 0
NoPool == [kind |-> "none", hid |-> 0]

\* A DatabasePool value: the engine kind of the variant and the identity of
\* the pool it wraps.
DatabasePool == [kind : DatabaseType, hid : PoolIds]

\* A ConnectionConfig as far as connect and test_connection read it: the id,
\* the engine kind, and whether every field the kind requires is Some.
ConnectionConfig == [id : ConnIds, db_type : DatabaseType, complete : BOOLEAN]

VARIABLES
    connections,  \* the HashMap, as its set of (key, value) entries
    readers,      \* RwLock: read guards held, per task
    writer,       \* RwLock: the task holding the write guard, or NoTask
    waiters,      \* RwLock: FIFO queue of tasks awaiting a guard
    task,         \* per task: where it is in which operation, and its locals
    tunnel,       \* the SSH tunnel: connect's position, the flag, the listener,
                  \* the session mutex, the accept loop
    relay         \* per local connection: its state and its worker's position

vars == <<connections, readers, writer, waiters, task, tunnel, relay>>

\* ------------------------------------------------------------- HashMap
MapHas(m, k) == \E e \in m : e.id = k

MapGet(m, k) == (CHOOSE e \in m : e.id = k).pool

\* Fault: an insert that keeps the entry the key already has.
MapInsertKeeping(m, k, v) == m \cup {[id |-> k, pool |-> v]}

MapInsert(m, k, v) == {e \in m : e.id # k} \cup {[id |-> k, pool |-> v]}

\* Fault: a remove that clears the map.
MapRemoveAll(m, k) == {}

MapRemove(m, k) == {e \in m : e.id # k}

\* ------------------------------------------------------------- RwLock
\* tokio's RwLock is fair: waiters queue first-in first-out, and a guard is
\* handed to the head of the queue as soon as it is compatible with the
\* guards held; nobody overtakes the head.
NoReaders(rd) == \A t \in Tasks : rd[t] = 0

RECURSIVE Grant(_, _, _)
Grant(rd, wr, q) ==
    IF q = << >> THEN [readers |-> rd, writer |-> wr, waiters |-> q]
    ELSE LET h == Head(q) IN
         IF h.mode = "read" /\ wr = NoTask
         THEN Grant([rd EXCEPT ![h.task] = @ + 1], wr, Tail(q))
         ELSE IF h.mode = "write" /\ wr = NoTask /\ NoReaders(rd)
         THEN [readers |-> rd, writer |-> h.task, waiters |-> Tail(q)]
         ELSE [readers |-> rd, writer |-> wr, waiters |-> q]

LockAcquire(p, mode) ==
    Grant(readers, writer, Append(waiters, [task |-> p, mode |-> mode]))

ReleaseRead(p, n) ==
    Grant([readers EXCEPT ![p] = @ - n], writer, waiters)

ReleaseWrite(p) ==
    Grant(readers, NoTask, waiters)

SetLock(l) ==
    /\ readers' = l.readers
    /\ writer' = l.writer
    /\ waiters' = l.waiters
    /\ UNCHANGED <<tunnel, relay>>

Waiting(p) == \E i \in DOMAIN waiters : waiters[i].task = p

\* ------------------------------------------------------------- tunnel state
\* Local connections, numbered in the order they reach the listener.
Conns == 1 .. MaxConns

\* Ports the OS may assign to bind("127.0.0.1:0").
Ports == {"p1", "p2"}

\* No worker holds the session mutex.
NoWorker == 0

\* Before SshTunnel::connect is called.  pc is connect's position, then
\* whether the SshTunnel it returned is held ("open") or dropped; log the
\* steps connect has taken and how each ended; running the flag; listener
\* the local listener and port the port it is bound to; local_port the
\* port connect reports;
\* holder the worker holding the session mutex; accept the accept loop's
\* position and loops the number of accept loops spawned.
NewTunnel ==
    [pc |-> "new", password |-> FALSE, key |-> FALSE, log |-> << >>,
     err |-> "none", running |-> FALSE, listener |-> "none", port |-> "none",
     local_port |-> "none", holder |-> NoWorker, accept |-> "none",
     loops |-> 0]

\* A local connection nobody has made yet.  state is "none", "pending" (in
\* the listener's backlog) or "accepted"; late tells that it reached the
\* listener after the drop, after_drop that accept returned it after the
\* drop; pc is its worker's position, up and down tell that the worker
\* has relayed bytes from the local socket to the channel and back.
NewRelay ==
    [state |-> "none", late |-> FALSE, after_drop |-> FALSE, pc |-> "none",
     up |-> FALSE, down |-> FALSE]

\* ------------------------------------------------------------- tasks
\* No data: the arguments of a call whose control flow reads none, the
\* value of a call that has not returned one.
NoData == [kind |-> "none"]

\* A task between calls keeps what its last call was and what it returned.
\* arg is the data the call was given, stmts the statements the call has
\* submitted to the engine, ans what the engine answered, val the value
\* the call returned.
Returned(o, cid, r) ==
    [pc |-> "idle", op |-> o, id |-> cid, dbt |-> "none",
     obj |-> TRUE, pool |-> NoPool, sent |-> 0, res |-> r,
     arg |-> NoData, stmts |-> << >>, ans |-> NoData, val |-> NoData]

\* A task inside a call, at its first line.
Calling(o, cid) ==
    [pc |-> "idle", op |-> o, id |-> cid, dbt |-> "none",
     obj |-> TRUE, pool |-> NoPool, sent |-> 0, res |-> "pending",
     arg |-> NoData, stmts |-> << >>, ans |-> NoData, val |-> NoData]

\* Pools that exist: the map's values and the ones a connect or a
\* test_connection has opened and still owns.
Owns(t) == task[t].op \in {"connect", "test_connection"} /\ task[t].pool # NoPool

OwnedPools == {task[t].pool.hid : t \in {u \in Tasks : Owns(u)}}

LivePools == {e.pool.hid : e \in connections} \cup OwnedPools

FreePools == PoolIds \ LivePools

MinOf(S) == CHOOSE x \in S : \A y \in S : x <= y

Init ==
    /\ connections = {}
    /\ readers = [t \in Tasks |-> 0]
    /\ writer = NoTask
    /\ waiters = << >>
    /\ task = [t \in Tasks |-> Returned("none", 0, "none")]
    /\ tunnel = NewTunnel
    /\ relay = [c \in Conns |-> NewRelay]

Return(p, r) == task' = [task EXCEPT ![p] = Returned(task[p].op, task[p].id, r)]

\* ------------------------------------------------------------- connect
\* connect, up to its first await: the connection string is built from the
\* config (a missing field returns the error at once), then Pool::connect
\* is awaited.
ConnectStart(p, cfg) ==
    /\ task[p].pc = "idle"
    /\ IF ~cfg.complete
       THEN task' = [task EXCEPT ![p] = Returned("connect", cfg.id, "FieldRequired")]
       ELSE task' = [task EXCEPT ![p] =
                [Calling("connect", cfg.id) EXCEPT !.pc = "connect_open",
                                                   !.dbt = cfg.db_type]]
    /\ UNCHANGED <<connections, readers, writer, waiters, tunnel, relay>>

\* Fault: a connect that gives up the id's prior entry when the engine
\* refuses the new pool.
ConnectRefusedEvicts(p) ==
    /\ task[p].pc = "connect_open"
    /\ Return(p, "EngineError")
    /\ connections' = {e \in connections : e.id # task[p].id}
    /\ UNCHANGED <<readers, writer, waiters, tunnel, relay>>

\* Pool::connect returned an error: `?` returns it, nothing was locked.
ConnectRefused(p) ==
    /\ task[p].pc = "connect_open"
    /\ Return(p, "EngineError")
    /\ UNCHANGED <<connections, readers, writer, waiters, tunnel, relay>>

\* Pool::connect returned a pool: it is wrapped in the variant of the
\* config's kind and the write lock is requested.
ConnectOpened(p) ==
    /\ task[p].pc = "connect_open"
    /\ FreePools # {}
    /\ task' = [task EXCEPT ![p].pc = "connect_write",
                            ![p].pool = [kind |-> task[p].dbt, hid |-> MinOf(FreePools)]]
    /\ SetLock(LockAcquire(p, "write"))
    /\ UNCHANGED connections

\* With the write guard: insert under config.id (the value insert returns,
\* the prior pool of that id, is dropped), drop the guard, return Ok.
ConnectInsert(p) ==
    /\ task[p].pc = "connect_write"
    /\ writer = p
    /\ connections' = MapInsert(connections, task[p].id, task[p].pool)
    /\ SetLock(ReleaseWrite(p))
    /\ Return(p, "Ok")

\* ------------------------------------------------------------- disconnect
DisconnectStart(p, cid) ==
    /\ task[p].pc = "idle"
    /\ task' = [task EXCEPT ![p] =
            [Calling("disconnect", cid) EXCEPT !.pc = "disconnect_write"]]
    /\ SetLock(LockAcquire(p, "write"))
    /\ UNCHANGED connections

\* With the write guard: remove the entry, or fail when there is none.
DisconnectRemove(p) ==
    /\ task[p].pc = "disconnect_write"
    /\ writer = p
    /\ IF MapHas(connections, task[p].id)
       THEN /\ connections' = MapRemove(connections, task[p].id)
            /\ Return(p, "Ok")
       ELSE /\ connections' = connections
            /\ Return(p, "ConnectionNotFound")
    /\ SetLock(ReleaseWrite(p))

\* ------------------------------------------------------------- test_connection
\* An associated function without &self: it has no access to the map.
TestConnectionStart(p, cfg) ==
    /\ task[p].pc = "idle"
    /\ IF ~cfg.complete
       THEN task' = [task EXCEPT ![p] =
                Returned("test_connection", cfg.id, "FieldRequired")]
       ELSE task' = [task EXCEPT ![p] =
                [Calling("test_connection", cfg.id) EXCEPT !.pc = "test_open",
                                                           !.dbt = cfg.db_type]]
    /\ UNCHANGED <<connections, readers, writer, waiters, tunnel, relay>>

\* The Err(e) arm of the match on Pool::connect: a result value with
\* success: false.
TestConnectionRefused(p) ==
    /\ task[p].pc = "test_open"
    /\ Return(p, "TestResultFailure")
    /\ UNCHANGED <<connections, readers, writer, waiters, tunnel, relay>>

\* The Ok(pool) arm: the version query is submitted.
TestConnectionOpened(p) ==
    /\ task[p].pc = "test_open"
    /\ FreePools # {}
    /\ task' = [task EXCEPT ![p].pc = "test_version", ![p].sent = 1,
                            ![p].pool = [kind |-> task[p].dbt, hid |-> MinOf(FreePools)]]
    /\ UNCHANGED <<connections, readers, writer, waiters, tunnel, relay>>

\* fetch_one(...).await? failed: `?` returns the error from the function;
\* pool.close() is not reached, the pool value is dropped at scope exit.
TestConnectionVersionFailed(p) ==
    /\ task[p].pc = "test_version"
    /\ Return(p, "EngineError")
    /\ UNCHANGED <<connections, readers, writer, waiters, tunnel, relay>>

\* fetch_one succeeded: pool.close() is awaited.
TestConnectionVersionOk(p) ==
    /\ task[p].pc = "test_version"
    /\ task' = [task EXCEPT ![p].pc = "test_close"]
    /\ UNCHANGED <<connections, readers, writer, waiters, tunnel, relay>>

\* Fault: a test_connection that, closing its probe, also removes the entry
\* registered under the config's id.
TestConnectionClosedEvicts(p) ==
    /\ task[p].pc = "test_close"
    /\ Return(p, "TestResultSuccess")
    /\ connections' = {e \in connections : e.id # task[p].id}
    /\ UNCHANGED <<readers, writer, waiters, tunnel, relay>>

\* close() returned: the result value with success: true.
TestConnectionClosed(p) ==
    /\ task[p].pc = "test_close"
    /\ Return(p, "TestResultSuccess")
    /\ UNCHANGED <<connections, readers, writer, waiters, tunnel, relay>>

\* ------------------------------------------------------------- operations on an id
\* Lookup, then exactly one statement.
SimpleOps ==
    {"get_table_structure", "execute_query", "delete_rows", "create_table",
     "drop_table", "alter_table_add_column", "rename_table"}

\* Lookup, then data.as_object() (an error when the JSON value is no
\* object), then one statement.
DataOps == {"insert_row", "update_row", "bulk_insert_rows"}

\* Operations whose control flow reads the db_type argument.
DbTypeOps == {"explain_query", "alter_table_drop_column"}

IdOps ==
    SimpleOps \cup DataOps \cup DbTypeOps \cup {"list_tables", "export_table_structure"}

\* The first line of every operation on an id: self.connections.read().await.
OpStart(p, o, cid, dbt, obj) ==
    /\ task[p].pc = "idle"
    /\ task' = [task EXCEPT ![p] =
            [Calling(o, cid) EXCEPT !.pc = "read",
                                    !.dbt = IF o \in DbTypeOps THEN dbt ELSE "none",
                                    !.obj = IF o \in DataOps THEN obj ELSE TRUE]]
    /\ SetLock(LockAcquire(p, "read"))
    /\ UNCHANGED connections

\* bulk_insert_rows with rows.is_empty(): returns before the lock is taken.
BulkInsertEmpty(p, cid) ==
    /\ task[p].pc = "idle"
    /\ task' = [task EXCEPT ![p] = Returned("bulk_insert_rows", cid, "Ok")]
    /\ UNCHANGED <<connections, readers, writer, waiters, tunnel, relay>>

HoldsRead(p) == readers[p] > 0 /\ ~Waiting(p)

\* Fault: a lookup that treats a missing id as nothing to do.
LookupMissingIgnored(p) ==
    /\ task[p].pc = "read"
    /\ HoldsRead(p)
    /\ ~(\E e \in connections : e.id = task[p].id)
    /\ Return(p, "Ok")
    /\ SetLock(ReleaseRead(p, 1))
    /\ UNCHANGED connections

\* connections.get(id) is None: ok_or_else(..)? returns the error and the
\* guard is dropped.
LookupMissing(p) ==
    /\ task[p].pc = "read"
    /\ HoldsRead(p)
    /\ ~MapHas(connections, task[p].id)
    /\ Return(p, "ConnectionNotFound")
    /\ SetLock(ReleaseRead(p, 1))
    /\ UNCHANGED connections

\* Fault: explain_query takes the caller's word for the engine kind.
RejectionTrustingCaller(o, pool, dbt, obj) ==
    IF o \in DataOps /\ ~obj THEN "NotAnObject"
    ELSE IF o = "alter_table_drop_column" /\ dbt = "SQLite" THEN "Unsupported"
    ELSE "none"

\* What stops an operation between the lookup and its statement.
Rejection(o, pool, dbt, obj) ==
    IF o \in DataOps /\ ~obj THEN "NotAnObject"
    ELSE IF o = "explain_query" /\ pool.kind # dbt THEN "TypeMismatch"
    ELSE IF o = "alter_table_drop_column" /\ dbt = "SQLite" THEN "Unsupported"
    ELSE "none"

\* The handle is found but the operation returns an error before any
\* statement is sent.
LookupRejected(p) ==
    /\ task[p].pc = "read"
    /\ HoldsRead(p)
    /\ task[p].op # "export_table_structure"
    /\ MapHas(connections, task[p].id)
    /\ LET r == Rejection(task[p].op, MapGet(connections, task[p].id),
                          task[p].dbt, task[p].obj)
       IN /\ r # "none"
          /\ Return(p, r)
    /\ SetLock(ReleaseRead(p, 1))
    /\ UNCHANGED connections

\* The handle is found and the statement is sent to its engine; `pool`
\* borrows from the guard, which stays held while the call is awaited.
LookupFound(p) ==
    /\ task[p].pc = "read"
    /\ HoldsRead(p)
    /\ task[p].op # "export_table_structure"
    /\ MapHas(connections, task[p].id)
    /\ LET pl == MapGet(connections, task[p].id)
       IN /\ Rejection(task[p].op, pl, task[p].dbt, task[p].obj) = "none"
          /\ task' = [task EXCEPT ![p].pc = "fetch", ![p].pool = pl, ![p].sent = 1]
    /\ UNCHANGED <<connections, readers, writer, waiters, tunnel, relay>>

\* Fault: an engine error that makes the registry forget the connection.
FetchFailedEvicts(p) ==
    /\ task[p].pc = "fetch"
    /\ Return(p, "EngineError")
    /\ connections' = {e \in connections : e.id # task[p].id}
    /\ SetLock(ReleaseRead(p, 1))

\* The engine call returned an error: `?` returns it, the guard is dropped.
FetchFailed(p) ==
    /\ task[p].pc = "fetch"
    /\ Return(p, "EngineError")
    /\ SetLock(ReleaseRead(p, 1))
    /\ UNCHANGED connections

\* The engine call returned rows (or a count): the operation returns Ok.
\* list_tables on a SQLite pool goes on with a COUNT(*) per table instead
\* when the listing has tables.
FetchOk(p) ==
    /\ task[p].pc = "fetch"
    /\ Return(p, "Ok")
    /\ SetLock(ReleaseRead(p, 1))
    /\ UNCHANGED connections

\* explain_query: the plan came back but is empty or does not parse.
ExplainFormatError(p) ==
    /\ task[p].pc = "fetch"
    /\ task[p].op = "explain_query"
    /\ task[p].pool.kind # "SQLite"
    /\ Return(p, "FormatError")
    /\ SetLock(ReleaseRead(p, 1))
    /\ UNCHANGED connections

\* list_tables, SQLite arm: for a row of type 'table' a COUNT(*) statement
\* is sent; its error is discarded (.ok()).
ListTablesCount(p) ==
    /\ task[p].pc \in {"fetch", "count"}
    /\ task[p].op = "list_tables"
    /\ task[p].pool.kind = "SQLite"
    /\ task[p].sent < 1 + MaxRows
    /\ task' = [task EXCEPT ![p].pc = "count", ![p].sent = @ + 1]
    /\ UNCHANGED <<connections, readers, writer, waiters, tunnel, relay>>

\* list_tables, SQLite arm: the last COUNT(*) returned.
ListTablesDone(p) ==
    /\ task[p].pc = "count"
    /\ Return(p, "Ok")
    /\ SetLock(ReleaseRead(p, 1))
    /\ UNCHANGED connections

\* ------------------------------------------------------------- export_table_structure
\* The handle is found (outer guard held); get_table_structure is called,
\* whose first line is a second self.connections.read().await.
ExportLookupFound(p) ==
    /\ task[p].pc = "read"
    /\ HoldsRead(p)
    /\ task[p].op = "export_table_structure"
    /\ MapHas(connections, task[p].id)
    /\ task' = [task EXCEPT ![p].pc = "gts_read",
                            ![p].pool = MapGet(connections, task[p].id)]
    /\ SetLock(LockAcquire(p, "read"))
    /\ UNCHANGED connections

\* get_table_structure inside export: the second guard is granted, the
\* lookup is done again and the columns query is sent.
ExportColumnsLookup(p) ==
    /\ task[p].pc = "gts_read"
    /\ readers[p] = 2
    /\ ~Waiting(p)
    /\ IF MapHas(connections, task[p].id)
       THEN /\ task' = [task EXCEPT ![p].pc = "gts_fetch", ![p].sent = 1]
            /\ UNCHANGED <<readers, writer, waiters, tunnel, relay>>
       ELSE /\ Return(p, "ConnectionNotFound")
            /\ SetLock(ReleaseRead(p, 2))
    /\ UNCHANGED connections

\* The columns query failed: both functions return, both guards are dropped.
ExportColumnsFailed(p) ==
    /\ task[p].pc = "gts_fetch"
    /\ Return(p, "EngineError")
    /\ SetLock(ReleaseRead(p, 2))
    /\ UNCHANGED connections

\* columns.is_empty(): "Table has no columns or does not exist".
ExportNoColumns(p) ==
    /\ task[p].pc = "gts_fetch"
    /\ Return(p, "NoColumns")
    /\ SetLock(ReleaseRead(p, 2))
    /\ UNCHANGED connections

\* get_table_structure returned columns (its guard is dropped); the
\* primary-key query is sent with the outer guard held.
ExportColumnsOk(p) ==
    /\ task[p].pc = "gts_fetch"
    /\ task' = [task EXCEPT ![p].pc = "pk_fetch", ![p].sent = 2]
    /\ SetLock(ReleaseRead(p, 1))
    /\ UNCHANGED connections

\* get_primary_keys returned: the index query is sent.
ExportKeysOk(p) ==
    /\ task[p].pc = "pk_fetch"
    /\ task' = [task EXCEPT ![p].pc = "idx_fetch", ![p].sent = 3]
    /\ UNCHANGED <<connections, readers, writer, waiters, tunnel, relay>>

\* get_indexes, SQLite arm: a PRAGMA index_info statement per index row.
ExportIndexInfo(p) ==
    /\ task[p].pc = "idx_fetch"
    /\ task[p].pool.kind = "SQLite"
    /\ task[p].sent < 3 + MaxRows
    /\ task' = [task EXCEPT ![p].sent = @ + 1]
    /\ UNCHANGED <<connections, readers, writer, waiters, tunnel, relay>>

\* A statement of get_primary_keys or get_indexes failed.
ExportLateFailed(p) ==
    /\ task[p].pc \in {"pk_fetch", "idx_fetch"}
    /\ Return(p, "EngineError")
    /\ SetLock(ReleaseRead(p, 1))
    /\ UNCHANGED connections

\* get_indexes returned: the CREATE TABLE text is composed and returned.
ExportDone(p) ==
    /\ task[p].pc = "idx_fetch"
    /\ Return(p, "Ok")
    /\ SetLock(ReleaseRead(p, 1))
    /\ UNCHANGED connections

\* ------------------------------------------------------------- JSON values
\* A serde_json::Value as far as the row operations read it: null, a string
\* (its characters), any other scalar or array (its JSON text, which is what
\* to_string yields), or an object (its Map: the entries by key).
JsonNull == [t |-> "null"]

JsonString(s) == [t |-> "string", s |-> s]

JsonOther(text) == [t |-> "other", text |-> text]

\* The keys callers use, in the order the Map iterates them.
KeyOrder == <<"a", "b">>

Keys == {KeyOrder[i] : i \in DOMAIN KeyOrder}

JsonObject(f) == [t |-> "object", f |-> f]

\* serde_json::Map::keys(): the object's keys in iteration order.
RECURSIVE ObjKeysFrom(_, _)
ObjKeysFrom(f, i) ==
    IF i > Len(KeyOrder) THEN << >>
    ELSE (IF KeyOrder[i] \in DOMAIN f THEN <<KeyOrder[i]>> ELSE << >>)
         \o ObjKeysFrom(f, i + 1)

ObjKeys(obj) == ObjKeysFrom(obj.f, 1)

\* Fault: replace that leaves single quotes as they are.
ReplaceQuotesNot(s) == s

\* str::replace("'", "''"): every single quote becomes two.
RECURSIVE ReplaceQuotes(_)
ReplaceQuotes(s) ==
    IF s = << >> THEN << >>
    ELSE (IF Head(s) = "'" THEN <<"'", "'">> ELSE <<Head(s)>>)
         \o ReplaceQuotes(Tail(s))

\* The closure that insert_row, bulk_insert_rows and update_row each apply
\* to a value: the characters of its SQL literal.
RenderValue(v) ==
    IF v.t = "null" THEN <<"NULL">>
    ELSE IF v.t = "string" THEN <<"'">> \o ReplaceQuotes(v.s) \o <<"'">>
    ELSE <<v.text>>

\* ------------------------------------------------------------- statements
\* A statement text is kept as the format string that produced it and the
\* pieces that were put into its holes, in order.

\* execute_query: the text as given.
QueryStatement(query) == [form |-> "{}", query |-> query]

\* explain_query: the EXPLAIN prefix of the pool's engine.
ExplainStatement(kind, analyze, query) ==
    [form |-> IF kind = "PostgreSQL"
              THEN (IF analyze
                    THEN "EXPLAIN (FORMAT JSON, ANALYZE true, BUFFERS true) {}"
                    ELSE "EXPLAIN (FORMAT JSON) {}")
              ELSE IF kind = "MySQL" THEN "EXPLAIN FORMAT=JSON {}"
              ELSE "EXPLAIN QUERY PLAN {}",
     query |-> query]

\* insert_row: columns are obj.keys(), values are obj.values() rendered.
InsertRowStatement(table, obj) ==
    LET columns == ObjKeys(obj)
    IN [form |-> "INSERT INTO {} ({}) VALUES ({})",
        table |-> table,
        columns |-> columns,
        tuples |-> <<[i \in DOMAIN columns |-> RenderValue(obj.f[columns[i]])]>>]

\* Fault: a value tuple built from the row's own keys.
BulkTupleOwnKeys(columns, obj) ==
    LET own == ObjKeys(obj)
    IN [i \in DOMAIN own |-> RenderValue(obj.f[own[i]])]

\* bulk_insert_rows, one row: for each column of the first row,
\* obj.get(col).unwrap_or(&Null) rendered.
BulkTuple(columns, obj) ==
    [i \in DOMAIN columns |->
        RenderValue(IF columns[i] \in DOMAIN obj.f THEN obj.f[columns[i]]
                    ELSE JsonNull)]

\* bulk_insert_rows: columns are the keys of rows[0], one tuple per row.
BulkInsertStatement(table, rows) ==
    LET columns == ObjKeys(rows[1])
    IN [form |-> "INSERT INTO {} ({}) VALUES {}",
        table |-> table,
        columns |-> columns,
        tuples |-> [i \in DOMAIN rows |-> BulkTuple(columns, rows[i])]]

\* update_row: one "k = value" clause per entry of the object.
UpdateRowStatement(table, obj, where_clause) ==
    LET columns == ObjKeys(obj)
    IN [form |-> "UPDATE {} SET {} WHERE {}",
        table |-> table,
        set_clauses |-> [i \in DOMAIN columns |->
                            [column |-> columns[i],
                             value |-> RenderValue(obj.f[columns[i]])]],
        where_clause |-> where_clause]

\* alter_table_drop_column.
DropColumnStatement(table, column) ==
    [form |-> "ALTER TABLE {} DROP COLUMN {}", table |-> table, column |-> column]

\* ------------------------------------------------------------- process_rows
\* A column's type name selects the Rust type the cell is read as.
DecodeAs(type_name) ==
    IF type_name \in {"TEXT", "VARCHAR", "CHAR", "BPCHAR"} THEN "String"
    ELSE IF type_name \in {"INTEGER", "INT", "BIGINT", "INT2", "INT4", "INT8"}
    THEN "i64"
    ELSE IF type_name \in {"REAL", "FLOAT", "DOUBLE", "FLOAT4", "FLOAT8"}
    THEN "f64"
    ELSE IF type_name \in {"BOOLEAN", "BOOL"} THEN "bool"
    ELSE IF type_name \in {"DATETIME", "TIMESTAMP"} THEN "NaiveDateTime"
    ELSE IF type_name = "TIMESTAMPTZ" THEN "DateTime"
    ELSE IF type_name = "DATE" THEN "NaiveDate"
    ELSE IF type_name = "TIME" THEN "NaiveTime"
    ELSE "String"

\* row.try_get::<T>(idx).map(..).unwrap_or(Null): the cell's value when the
\* stored value reads as T, null otherwise (a stored NULL reads as no T).
DecodeCell(cell) ==
    IF cell.raw.as = DecodeAs(cell.type) THEN [t |-> cell.raw.as, v |-> cell.raw.v]
    ELSE JsonNull

\* The serde_json::Map of one row: map.insert(name, value) per column in
\* order, so the last column of a name is the one the map keeps.
RowObject(row) ==
    [n \in {row[i].name : i \in DOMAIN row} |->
        LET last == CHOOSE i \in DOMAIN row :
                        /\ row[i].name = n
                        /\ \A j \in DOMAIN row : row[j].name = n => j <= i
        IN DecodeCell(row[last])]

\* Fault: rows_affected taken from the number of rows.
process_rows_counting(rows) ==
    IF rows = << >>
    THEN [columns |-> << >>, rows |-> << >>, rows_affected |-> 0]
    ELSE [columns |-> [i \in DOMAIN rows[1] |-> rows[1][i].name],
          rows |-> [r \in DOMAIN rows |-> RowObject(rows[r])],
          rows_affected |-> Len(rows)]

process_rows(rows) ==
    IF rows = << >>
    THEN [columns |-> << >>, rows |-> << >>, rows_affected |-> 0]
    ELSE [columns |-> [i \in DOMAIN rows[1] |-> rows[1][i].name],
          rows |-> [r \in DOMAIN rows |-> RowObject(rows[r])],
          rows_affected |-> 0]

\* ------------------------------------------------------------- operations with their data
\* The texts and values the callers pass.
Queries == {"SELECT 1", "DELETE FROM t"}

Tables == {"t"}

WhereClauses == {"id = 1"}

Chars == {"x", "'"}

Strings(n) == UNION {[1 .. k -> Chars] : k \in 0 .. n}

JsonScalars ==
    {JsonNull, JsonOther("7"), JsonOther("true")}
        \cup {JsonString(s) : s \in Strings(MaxStrLen)}

Objects(values) == {JsonObject(f) : f \in UNION {[K -> values] : K \in SUBSET Keys}}

\* The data argument of insert_row and update_row: an object, or a JSON
\* value that is none.
DataValues == Objects(JsonScalars) \cup {JsonOther("[1]")}

\* The rows argument of bulk_insert_rows.
BulkRows ==
    Objects({JsonNull, JsonOther("7"), JsonString(<<"'">>)}) \cup {JsonOther("[1]")}

BulkLists == UNION {[1 .. k -> BulkRows] : k \in 0 .. MaxBulk}

\* What the engine can answer a fetch_all with: rows that share their
\* columns (name and type name), each cell holding a stored value.  A type
\* name comes as the driver reports it, a user-defined type's as it was
\* declared.
TypeNames == {"TEXT", "INTEGER", "integer"}

ResultColumns ==
    UNION {[1 .. k -> [name : Keys, type : TypeNames]] : k \in 1 .. MaxCols}

RawValues ==
    {[as |-> "String", v |-> "x"], [as |-> "i64", v |-> "7"],
     [as |-> "NULL", v |-> ""]}

ResultSets ==
    {<< >>} \cup
    UNION {UNION {{[r \in 1 .. n |->
                        [i \in DOMAIN cols |->
                            [name |-> cols[i].name, type |-> cols[i].type,
                             raw |-> cells[r][i]]]] :
                    cells \in [1 .. n -> [DOMAIN cols -> RawValues]]} :
                  n \in 1 .. MaxResultRows} :
           cols \in ResultColumns}

\* Operations that run one statement built from their arguments.
StatementOps ==
    {"execute_query", "explain_query", "insert_row", "bulk_insert_rows",
     "update_row", "alter_table_drop_column"}

\* data.as_object() is Some (for bulk_insert_rows: of every row).
IsObjectArg(o, a) ==
    IF o \in {"insert_row", "update_row"} THEN a.data.t = "object"
    ELSE IF o = "bulk_insert_rows"
    THEN \A i \in DOMAIN a.rows : a.rows[i].t = "object"
    ELSE TRUE

\* The first line of an operation, with the data it was called with.
DataStart(p, o, cid, dbt, a) ==
    /\ task[p].pc = "idle"
    /\ task' = [task EXCEPT ![p] =
            [Calling(o, cid) EXCEPT !.pc = "read", !.dbt = dbt, !.arg = a,
                                    !.obj = IsObjectArg(o, a)]]
    /\ SetLock(LockAcquire(p, "read"))
    /\ UNCHANGED connections

\* Fault: an empty row list reported as an error.
BulkInsertStartRejectsEmpty(p, cid, table, rows) ==
    IF rows = << >>
    THEN /\ task[p].pc = "idle"
         /\ task' = [task EXCEPT ![p] =
                [Calling("bulk_insert_rows", cid)
                    EXCEPT !.pc = "returned", !.res = "NotAnObject",
                           !.arg = [table |-> table, rows |-> rows]]]
         /\ UNCHANGED <<connections, readers, writer, waiters, tunnel, relay>>
    ELSE DataStart(p, "bulk_insert_rows", cid, "none",
                   [table |-> table, rows |-> rows])

\* Fault: the id is looked up before the row list is looked at.
BulkInsertStartLooksUp(p, cid, table, rows) ==
    IF rows = << >>
    THEN /\ task[p].pc = "idle"
         /\ task' = [task EXCEPT ![p] =
                [Calling("bulk_insert_rows", cid)
                    EXCEPT !.pc = "returned",
                           !.res = IF MapHas(connections, cid) THEN "Ok"
                                   ELSE "ConnectionNotFound",
                           !.arg = [table |-> table, rows |-> rows],
                           !.val = IF MapHas(connections, cid)
                                   THEN [form |-> "No rows to insert"]
                                   ELSE NoData]]
         /\ UNCHANGED <<connections, readers, writer, waiters, tunnel, relay>>
    ELSE DataStart(p, "bulk_insert_rows", cid, "none",
                   [table |-> table, rows |-> rows])

\* bulk_insert_rows: rows.is_empty() returns "No rows to insert" before the
\* lock is requested.
BulkInsertStart(p, cid, table, rows) ==
    IF rows = << >>
    THEN /\ task[p].pc = "idle"
         /\ task' = [task EXCEPT ![p] =
                [Calling("bulk_insert_rows", cid)
                    EXCEPT !.pc = "returned", !.res = "Ok",
                           !.arg = [table |-> table, rows |-> rows],
                           !.val = [form |-> "No rows to insert"]]]
         /\ UNCHANGED <<connections, readers, writer, waiters, tunnel, relay>>
    ELSE DataStart(p, "bulk_insert_rows", cid, "none",
                   [table |-> table, rows |-> rows])

\* The statement an operation builds once it has the handle.
StatementOf(o, a, pool) ==
    IF o = "execute_query" THEN QueryStatement(a.query)
    ELSE IF o = "explain_query" THEN ExplainStatement(pool.kind, a.analyze, a.query)
    ELSE IF o = "insert_row" THEN InsertRowStatement(a.table, a.data)
    ELSE IF o = "bulk_insert_rows" THEN BulkInsertStatement(a.table, a.rows)
    ELSE IF o = "update_row" THEN UpdateRowStatement(a.table, a.data, a.where_clause)
    ELSE DropColumnStatement(a.table, a.column)

\* The handle is found, the statement is built and submitted to the
\* handle's engine.
StatementSubmit(p) ==
    /\ task[p].pc = "read"
    /\ HoldsRead(p)
    /\ task[p].op \in StatementOps
    /\ MapHas(connections, task[p].id)
    /\ LET pl == MapGet(connections, task[p].id)
       IN /\ Rejection(task[p].op, pl, task[p].dbt, task[p].obj) = "none"
          /\ task' = [task EXCEPT
                ![p].pc = "fetch", ![p].pool = pl, ![p].sent = 1,
                ![p].stmts = <<StatementOf(task[p].op, task[p].arg, pl)>>]
    /\ UNCHANGED <<connections, readers, writer, waiters, tunnel, relay>>

\* The engine answered and the method returns Ok(v) to the command that
\* called it.
ReturnValue(p, answer, v) ==
    task' = [task EXCEPT ![p].pc = "returned", ![p].res = "Ok",
                         ![p].ans = answer, ![p].val = v]

\* The command hands the value to its caller; the task is free again.
CommandReturn(p) ==
    /\ task[p].pc = "returned"
    /\ Return(p, task[p].res)
    /\ UNCHANGED <<connections, readers, writer, waiters, tunnel, relay>>

\* execute_query: fetch_all returned rows; process_rows makes the result.
ExecuteQueryRows(p, rows) ==
    /\ task[p].pc = "fetch"
    /\ task[p].op = "execute_query"
    /\ task[p].arg # NoData
    /\ ReturnValue(p, [rows |-> rows], process_rows(rows))
    /\ SetLock(ReleaseRead(p, 1))
    /\ UNCHANGED connections

\* The message a row operation returns after execute_query! gave it the
\* engine's count n.
SuccessMessage(o, a, n) ==
    IF o = "insert_row"
    THEN [form |-> "Successfully inserted 1 row into {}", table |-> a.table]
    ELSE IF o = "bulk_insert_rows"
    THEN [form |-> "Successfully inserted {} rows into {}",
          n |-> Len(a.rows), table |-> a.table]
    ELSE IF o = "update_row"
    THEN [form |-> "Successfully updated {} row(s)", n |-> n]
    ELSE [form |-> "Successfully dropped column {} from {}",
          column |-> a.column, table |-> a.table]

\* insert_row, bulk_insert_rows, update_row, alter_table_drop_column: the
\* statement was executed and affected n rows.
StatementExecuted(p, n) ==
    /\ task[p].pc = "fetch"
    /\ task[p].op \in StatementOps \ {"execute_query", "explain_query"}
    /\ task[p].arg # NoData
    /\ ReturnValue(p, [rows_affected |-> n],
                   SuccessMessage(task[p].op, task[p].arg, n))
    /\ SetLock(ReleaseRead(p, 1))
    /\ UNCHANGED connections

\* ------------------------------------------------------------- execution plans
\* An Option<T>.
None == [some |-> FALSE]

Some(x) == [some |-> TRUE, v |-> x]

\* A node of PostgreSQL's JSON plan, as far as parse_postgres_plan reads it:
\* the fields may be absent; "Plans" is the array of child nodes.
PlanNode(fields, plans) ==
    [node_type |-> fields.node_type, relation_name |-> fields.relation_name,
     plan_rows |-> fields.plan_rows, total_cost |-> fields.total_cost,
     filter |-> fields.filter, index_name |-> fields.index_name,
     plans |-> plans]

\* The scans with and without a table and a cost, a node without a kind
\* that filters, and an index scan that names its index.
NodeFields ==
    [node_type : {Some("Seq Scan"), Some("Index Scan")},
     relation_name : {None, Some("orders")},
     plan_rows : {Some(10), Some(50000)},
     total_cost : {None, Some(2000)},
     filter : {None}, index_name : {None}]
    \cup
    {[node_type |-> None, relation_name |-> None, plan_rows |-> None,
      total_cost |-> None, filter |-> Some("(id > 1)"), index_name |-> None],
     [node_type |-> Some("Index Scan"), relation_name |-> Some("orders"),
      plan_rows |-> Some(10), total_cost |-> None, filter |-> None,
      index_name |-> Some("orders_pkey")]}

\* Every plan of at most n nodes: a tree, and a sequence of trees.
RECURSIVE PlanTrees(_), PlanForests(_)
PlanTrees(n) ==
    IF n = 0 THEN {}
    ELSE {PlanNode(f, c) : f \in NodeFields, c \in PlanForests(n - 1)}

PlanForests(n) ==
    {<< >>} \cup
    UNION {{<<t>> \o rest : t \in PlanTrees(k), rest \in PlanForests(n - k)} :
           k \in 1 .. n}

\* Fault: the nodes of "Plans" become childless steps.
parse_postgres_plan_one_level(plan) ==
    LET StepOf(node, children) ==
            [step_type |-> IF node.node_type.some THEN node.node_type.v
                           ELSE "Unknown",
             table_name |-> node.relation_name,
             rows |-> node.plan_rows,
             cost |-> node.total_cost,
             filter_condition |-> node.filter,
             index_used |-> node.index_name,
             children |-> children]
    IN <<StepOf(plan, [i \in DOMAIN plan.plans |-> StepOf(plan.plans[i], << >>)])>>

\* parse_postgres_plan: one PlanStep for the node, its children the steps
\* of the nodes of "Plans", in order.
RECURSIVE parse_postgres_plan(_)
parse_postgres_plan(plan) ==
    <<[step_type |-> IF plan.node_type.some THEN plan.node_type.v ELSE "Unknown",
       table_name |-> plan.relation_name,
       rows |-> plan.plan_rows,
       cost |-> plan.total_cost,
       filter_condition |-> plan.filter,
       index_used |-> plan.index_name,
       children |-> [i \in DOMAIN plan.plans |->
                        parse_postgres_plan(plan.plans[i])[1]]]>>

\* parse_mysql_plan: one childless step when query_block.table is there.
parse_mysql_plan(plan) ==
    IF plan.table.some
    THEN <<[step_type |-> IF plan.table.v.access_type.some
                          THEN plan.table.v.access_type.v ELSE "Unknown",
            table_name |-> plan.table.v.table_name,
            rows |-> plan.table.v.rows_examined_per_scan,
            cost |-> None,
            filter_condition |-> None,
            index_used |-> plan.table.v.key,
            children |-> << >>]>>
    ELSE << >>

\* The SQLite arm of explain_query: one step per row, every field empty.
SqlitePlanSteps(n) ==
    [i \in 1 .. n |->
        [step_type |-> "SQLite Plan", table_name |-> None, rows |-> None,
         cost |-> None, filter_condition |-> None, index_used |-> None,
         children |-> << >>]]

\* ------------------------------------------------------------- generate_recommendations
\* str::contains on the step kinds the engines report.
ContainsSeqScan(step_type) == step_type \in {"Seq Scan", "Parallel Seq Scan"}

ContainsALL(step_type) == step_type = "ALL"

IndexMessage(table) ==
    [form |-> "Consider adding an index to table '{}' to avoid sequential scan",
     table |-> table]

RowsMessage(rows) ==
    [form |-> "High row count ({}) detected. Consider adding WHERE clause to filter data",
     rows |-> rows]

CostMessage(cost) ==
    [form |-> "High cost operation detected (cost: {:.2}). Review query optimization",
     cost |-> cost]

WellOptimized == [form |-> "Query appears to be well optimized"]

\* The messages a step pushes for itself, in the order of the three checks.
OwnRecommendations(step) ==
    (IF (ContainsSeqScan(step.step_type) \/ ContainsALL(step.step_type))
        /\ step.table_name.some
     THEN <<IndexMessage(step.table_name.v)>> ELSE << >>)
    \o (IF step.rows.some /\ step.rows.v > 10000
        THEN <<RowsMessage(step.rows.v)>> ELSE << >>)
    \o (IF step.cost.some /\ step.cost.v > 1000
        THEN <<CostMessage(step.cost.v)>> ELSE << >>)

Contains(recs, rec) == \E i \in DOMAIN recs : recs[i] = rec

\* Fault: the children's messages appended without the contains check.
PushNewUnchecked(recommendations, recs) == recommendations \o recs

\* for rec in recs { if !recommendations.contains(&rec) { push(rec) } }
RECURSIVE PushNew(_, _)
PushNew(recommendations, recs) ==
    IF recs = << >> THEN recommendations
    ELSE PushNew(IF Contains(recommendations, Head(recs)) THEN recommendations
                 ELSE Append(recommendations, Head(recs)),
                 Tail(recs))

\* The loop over plan_steps from step i on, and the function: after the
\* loop, an empty list gets the "well optimized" message.
RECURSIVE generate_recommendations(_), RecommendationsFrom(_, _, _)
RecommendationsFrom(recommendations, plan_steps, i) ==
    IF i > Len(plan_steps) THEN recommendations
    ELSE RecommendationsFrom(
            PushNew(recommendations \o OwnRecommendations(plan_steps[i]),
                    generate_recommendations(plan_steps[i].children)),
            plan_steps, i + 1)

generate_recommendations(plan_steps) ==
    LET recommendations == RecommendationsFrom(<< >>, plan_steps, 1)
    IN IF recommendations = << >> THEN <<WellOptimized>> ELSE recommendations

\* ------------------------------------------------------------- explain_query
\* What the engine's EXPLAIN can come back as, once it is parsed: for
\* PostgreSQL the JSON array (only its first element is read), for MySQL
\* the object with or without query_block.table, for SQLite the number of
\* rows.
PostgresAnswers ==
    {[plans |-> << >>]} \cup {[plans |-> <<t>>] : t \in PlanTrees(MaxPlanNodes)}

MySqlAnswers ==
    {[table |-> None]} \cup
    {[table |-> Some(t)] :
        t \in [access_type : {Some("ALL"), Some("ref")},
               table_name : {None, Some("orders")},
               rows_examined_per_scan : {None, Some(50000)},
               key : {None}]}

SqliteAnswers == {[n |-> n] : n \in 0 .. MaxResultRows}

ExplainAnswers(kind) ==
    IF kind = "PostgreSQL" THEN PostgresAnswers
    ELSE IF kind = "MySQL" THEN MySqlAnswers
    ELSE SqliteAnswers

\* The (plan_steps, total_cost) pair of the matching arm.
PlanOf(kind, answer) ==
    IF kind = "PostgreSQL"
    THEN IF answer.plans = << >>
         THEN [plan_steps |-> << >>, total_cost |-> None]
         ELSE [plan_steps |-> parse_postgres_plan(answer.plans[1]),
               total_cost |-> answer.plans[1].total_cost]
    ELSE IF kind = "MySQL"
    THEN [plan_steps |-> parse_mysql_plan(answer), total_cost |-> None]
    ELSE [plan_steps |-> SqlitePlanSteps(answer.n), total_cost |-> None]

\* explain_query: the plan came back and parsed; the steps and their
\* recommendations are returned.
ExplainPlanned(p) ==
    /\ task[p].pc = "fetch"
    /\ task[p].op = "explain_query"
    /\ task[p].arg # NoData
    /\ \E answer \in ExplainAnswers(task[p].pool.kind) :
         LET plan == PlanOf(task[p].pool.kind, answer)
         IN ReturnValue(p, answer,
              [query |-> task[p].arg.query,
               plan_steps |-> plan.plan_steps,
               total_cost |-> plan.total_cost,
               measured |-> task[p].arg.analyze,
               recommendations |-> generate_recommendations(plan.plan_steps)])
    /\ SetLock(ReleaseRead(p, 1))
    /\ UNCHANGED connections

\* ------------------------------------------------------------- execute_transaction
\* The command of commands/mod.rs: for query in queries, one
\* manager.execute_query(&connection_id, &query).await each, `?` on its
\* error.  arg.queries is the list, stmts the statements submitted so far,
\* ans.executed the number of them the engine has executed.
QueryLists == UNION {[1 .. k -> Queries] : k \in 0 .. MaxQueries}

TransactionMessage(queries) ==
    [form |-> "Successfully executed {} queries", n |-> Len(queries)]

\* The command is called: an empty list returns Ok at once; otherwise the
\* first execute_query requests its read guard.
TransactionStart(p, cid, queries) ==
    /\ task[p].pc = "idle"
    /\ IF queries = << >>
       THEN /\ task' = [task EXCEPT ![p] =
                    [Calling("execute_transaction", cid)
                        EXCEPT !.pc = "returned", !.res = "Ok",
                               !.arg = [queries |-> queries],
                               !.ans = [executed |-> 0],
                               !.val = TransactionMessage(queries)]]
            /\ UNCHANGED <<readers, writer, waiters, tunnel, relay>>
       ELSE /\ task' = [task EXCEPT ![p] =
                    [Calling("execute_transaction", cid)
                        EXCEPT !.pc = "tx_read",
                               !.arg = [queries |-> queries],
                               !.ans = [executed |-> 0]]]
            /\ SetLock(LockAcquire(p, "read"))
    /\ UNCHANGED connections

\* The command returns Err("Transaction failed: ..").
TransactionFailed(p) ==
    task' = [task EXCEPT ![p].pc = "returned", ![p].res = "TransactionFailed"]

\* execute_query finds no handle under the id: its error ends the loop.
TransactionLookupMissing(p) ==
    /\ task[p].pc = "tx_read"
    /\ HoldsRead(p)
    /\ ~MapHas(connections, task[p].id)
    /\ TransactionFailed(p)
    /\ SetLock(ReleaseRead(p, 1))
    /\ UNCHANGED connections

\* execute_query finds the handle and submits the next query of the list.
TransactionSubmit(p) ==
    /\ task[p].pc = "tx_read"
    /\ HoldsRead(p)
    /\ MapHas(connections, task[p].id)
    /\ task' = [task EXCEPT
            ![p].pc = "tx_fetch",
            ![p].pool = MapGet(connections, task[p].id),
            ![p].sent = @ + 1,
            ![p].stmts = Append(@, QueryStatement(
                                    task[p].arg.queries[Len(task[p].stmts) + 1]))]
    /\ UNCHANGED <<connections, readers, writer, waiters, tunnel, relay>>

\* Fault: a failed statement is skipped and the loop goes on.
TransactionStatementFailedSkips(p) ==
    /\ task[p].pc = "tx_fetch"
    /\ LET l == ReleaseRead(p, 1)
       IN IF Len(task[p].stmts) = Len(task[p].arg.queries)
          THEN /\ task' = [task EXCEPT ![p].pc = "returned", ![p].res = "Ok",
                                       ![p].val = TransactionMessage(task[p].arg.queries)]
               /\ SetLock(l)
          ELSE /\ task' = [task EXCEPT ![p].pc = "tx_read"]
               /\ SetLock(Grant(l.readers, l.writer,
                                Append(l.waiters, [task |-> p, mode |-> "read"])))
    /\ UNCHANGED connections

\* The engine fails the statement: execute_query returns the error, its
\* guard is dropped, and `?` returns from the command.
TransactionStatementFailed(p) ==
    /\ task[p].pc = "tx_fetch"
    /\ TransactionFailed(p)
    /\ SetLock(ReleaseRead(p, 1))
    /\ UNCHANGED connections

\* The engine executes the statement: execute_query returns Ok (its rows
\* are dropped with its guard); the loop goes on with the next query, whose
\* execute_query requests the read guard anew, or the command returns Ok
\* after the last.
TransactionStatementOk(p) ==
    /\ task[p].pc = "tx_fetch"
    /\ LET l == ReleaseRead(p, 1)
           n == task[p].ans.executed + 1
       IN IF Len(task[p].stmts) = Len(task[p].arg.queries)
          THEN /\ task' = [task EXCEPT ![p].pc = "returned", ![p].res = "Ok",
                                       ![p].ans = [executed |-> n],
                                       ![p].val = TransactionMessage(task[p].arg.queries)]
               /\ SetLock(l)
          ELSE /\ task' = [task EXCEPT ![p].pc = "tx_read",
                                       ![p].ans = [executed |-> n]]
               /\ SetLock(Grant(l.readers, l.writer,
                                Append(l.waiters, [task |-> p, mode |-> "read"])))
    /\ UNCHANGED connections

\* ------------------------------------------------------------- SshTunnel
\* The tunnel (src-tauri/src/ssh_tunnel.rs) shares nothing with the
\* registry.  Its threads are the caller of SshTunnel::connect, who then
\* owns the SshTunnel and drops it, the accept loop, and one worker per
\* accepted local connection.  Each action is the code between two blocking
\* calls or two accesses to shared state.
registry == <<connections, readers, writer, waiters, task>>

\* SshTunnel::connect is called; a credential is supplied or not.
TunnelConnect(password, key) ==
    /\ tunnel.pc = "new"
    /\ tunnel' = [tunnel EXCEPT !.pc = "transport", !.password = password,
                                !.key = key]
    /\ UNCHANGED <<registry, relay>>

\* connect returns Err(err) because step failed; what it has built is
\* dropped.
ConnectFailed(step, err) ==
    [tunnel EXCEPT !.pc = "failed", !.err = err,
                   !.log = Append(@, [step |-> step, ok |-> FALSE])]

\* step succeeded and connect goes on to next.
ConnectStep(step, next) ==
    [tunnel EXCEPT !.pc = next, !.log = Append(@, [step |-> step, ok |-> TRUE])]

\* TcpStream::connect, Session::new, set_tcp_stream.
TransportConnect(ok) ==
    /\ tunnel.pc = "transport"
    /\ tunnel' = IF ok THEN ConnectStep("transport", "handshake")
                 ELSE ConnectFailed("transport", "Failed to connect to SSH server")
    /\ UNCHANGED <<registry, relay>>

\* Fault: a failed handshake is not looked at.
HandshakeUnchecked(ok) ==
    /\ tunnel.pc = "handshake"
    /\ tunnel' = [tunnel EXCEPT
                    !.pc = "authenticate",
                    !.log = Append(@, [step |-> "handshake", ok |-> ok])]
    /\ UNCHANGED <<registry, relay>>

\* sess.handshake().
Handshake(ok) ==
    /\ tunnel.pc = "handshake"
    /\ tunnel' = IF ok THEN ConnectStep("handshake", "authenticate")
                 ELSE ConnectFailed("handshake", "SSH handshake failed")
    /\ UNCHANGED <<registry, relay>>

\* The if / else if / else over ssh_password and ssh_private_key_path: the
\* password when there is one, else the key when there is one, else the
\* error.
Authenticate(ok) ==
    /\ tunnel.pc = "authenticate"
    /\ tunnel' =
         IF tunnel.password
         THEN IF ok THEN ConnectStep("userauth_password", "authenticated")
              ELSE ConnectFailed("userauth_password",
                                 "SSH password authentication failed")
         ELSE IF tunnel.key
         THEN IF ok THEN ConnectStep("userauth_pubkey_file", "authenticated")
              ELSE ConnectFailed("userauth_pubkey_file",
                                 "SSH key authentication failed")
         ELSE [tunnel EXCEPT !.pc = "failed",
                             !.err = "No SSH authentication method provided"]
    /\ UNCHANGED <<registry, relay>>

\* sess.authenticated().
Authenticated(ok) ==
    /\ tunnel.pc = "authenticated"
    /\ tunnel' = IF ok THEN ConnectStep("authenticated", "bind")
                 ELSE ConnectFailed("authenticated", "SSH authentication failed")
    /\ UNCHANGED <<registry, relay>>

\* TcpListener::bind("127.0.0.1:0") and listener.local_addr(); when the
\* second fails the listener just bound is dropped by the return.
BindListener(outcome, port) ==
    /\ tunnel.pc = "bind"
    /\ tunnel' =
         IF outcome = "ok"
         THEN [ConnectStep("bind", "spawn") EXCEPT
                    !.listener = "bound", !.port = port, !.local_port = port]
         ELSE IF outcome = "local_addr"
         THEN [ConnectFailed("bind", "Failed to get local port") EXCEPT
                    !.listener = "released", !.port = port]
         ELSE ConnectFailed("bind", "Failed to bind local port")
    /\ UNCHANGED <<registry, relay>>

\* running = Arc::new(Mutex::new(true)), thread::spawn of the accept loop,
\* Ok(Self { .. }).
SpawnAcceptLoop ==
    /\ tunnel.pc = "spawn"
    /\ tunnel' = [ConnectStep("spawn", "open") EXCEPT
                    !.running = TRUE, !.accept = "check", !.loops = @ + 1]
    /\ UNCHANGED <<registry, relay>>

\* impl Drop for SshTunnel: *running = false.
TunnelDrop ==
    /\ tunnel.pc = "open"
    /\ tunnel' = [tunnel EXCEPT !.pc = "dropped", !.running = FALSE]
    /\ UNCHANGED <<registry, relay>>

\* A local client connects to the bound port: the connection waits in the
\* listener's backlog.
LocalConnect(c) ==
    /\ tunnel.listener = "bound"
    /\ relay[c].state = "none"
    /\ \A b \in Conns : b < c => relay[b].state # "none"
    /\ relay' = [relay EXCEPT ![c].state = "pending",
                              ![c].late = (tunnel.pc = "dropped")]
    /\ UNCHANGED <<registry, tunnel>>

\* Accept loop, top of an iteration: running_clone.lock(), break on false.
\* The closure owns the listener, which is released when the loop is left.
AcceptCheck ==
    /\ tunnel.accept = "check"
    /\ tunnel' = IF tunnel.running THEN [tunnel EXCEPT !.accept = "accept"]
                 ELSE [tunnel EXCEPT !.accept = "exited",
                                     !.listener = "released"]
    /\ UNCHANGED <<registry, relay>>

\* listener.accept() returns the oldest connection of the backlog, and the
\* loop spawns its worker and goes back to the top.
AcceptConnection ==
    /\ tunnel.accept = "accept"
    /\ \E c \in Conns :
        /\ relay[c].state = "pending"
        /\ \A b \in Conns : b < c => relay[b].state # "pending"
        /\ relay' = [relay EXCEPT ![c].state = "accepted", ![c].pc = "lock",
                                  ![c].after_drop = (tunnel.pc = "dropped")]
    /\ tunnel' = [tunnel EXCEPT !.accept = "check"]
    /\ UNCHANGED registry

\* listener.accept() returns Err: continue.
AcceptError ==
    /\ tunnel.accept = "accept"
    /\ tunnel' = [tunnel EXCEPT !.accept = "check"]
    /\ UNCHANGED <<registry, relay>>

\* handle_tunnel_connection: sess.lock().  The guard is the local `sess`,
\* which lives until the function returns.
WorkerLock(c) ==
    /\ relay[c].pc = "lock"
    /\ tunnel.holder = NoWorker
    /\ tunnel' = [tunnel EXCEPT !.holder = c]
    /\ relay' = [relay EXCEPT ![c].pc = "channel"]
    /\ UNCHANGED registry

\* Fault: the worker ends with the session mutex still taken.
WorkerEndKeepsGuard(c, r) ==
    /\ relay' = [relay EXCEPT ![c].pc = r]
    /\ UNCHANGED tunnel
    /\ UNCHANGED registry

\* handle_tunnel_connection returns Ok ("done") or Err ("error"): its
\* locals, the guard among them, are dropped.
WorkerEnd(c, r) ==
    /\ relay' = [relay EXCEPT ![c].pc = r]
    /\ tunnel' = [tunnel EXCEPT !.holder = NoWorker]
    /\ UNCHANGED registry

\* channel_direct_tcpip, set_nonblocking, set_read_timeout.
OpenChannel(c, ok) ==
    /\ relay[c].pc = "channel"
    /\ IF ok
       THEN /\ relay' = [relay EXCEPT ![c].pc = "check"]
            /\ UNCHANGED <<registry, tunnel>>
       ELSE WorkerEnd(c, "error")

\* Fault: the copy loop does not look at the flag.
CopyCheckBlind(c) ==
    /\ relay[c].pc = "check"
    /\ relay' = [relay EXCEPT ![c].pc = "local"]
    /\ UNCHANGED <<registry, tunnel>>

\* Copy loop, top of an iteration: running.lock(), break on false.
CopyCheck(c) ==
    /\ relay[c].pc = "check"
    /\ IF tunnel.running
       THEN /\ relay' = [relay EXCEPT ![c].pc = "local"]
            /\ UNCHANGED <<registry, tunnel>>
       ELSE WorkerEnd(c, "done")

\* What a read and the write that follows it can give: Ok(0), Ok(n) with
\* the write done, Ok(n) with the write failed, WouldBlock, another error.
CopyOutcomes == {"closed", "data", "write_failed", "would_block", "error"}

\* local_stream.read and channel.write_all.
CopyLocal(c, outcome) ==
    /\ relay[c].pc = "local"
    /\ IF outcome = "closed" THEN WorkerEnd(c, "done")
       ELSE IF outcome \in {"write_failed", "error"} THEN WorkerEnd(c, "error")
       ELSE /\ relay' = [relay EXCEPT ![c].pc = "remote",
                                      ![c].up = @ \/ outcome = "data"]
            /\ UNCHANGED <<registry, tunnel>>

\* channel.read and local_stream.write_all, then the sleep.
CopyRemote(c, outcome) ==
    /\ relay[c].pc = "remote"
    /\ IF outcome = "closed" THEN WorkerEnd(c, "done")
       ELSE IF outcome \in {"write_failed", "error"} THEN WorkerEnd(c, "error")
       ELSE /\ relay' = [relay EXCEPT ![c].pc = "check",
                                      ![c].down = @ \/ outcome = "data"]
            /\ UNCHANGED <<registry, tunnel>>

\* ------------------------------------------------------------- specifications
\* Lifecycle workload: tasks call connect, disconnect, test_connection and
\* execute_query with every config and id.
ApiCall(p) ==
    \/ \E cfg \in ConnectionConfig : ConnectStart(p, cfg)
    \/ \E cid \in ConnIds : DisconnectStart(p, cid)
    \/ \E cfg \in ConnectionConfig : TestConnectionStart(p, cfg)
    \/ \E cid \in ConnIds : OpStart(p, "execute_query", cid, "none", TRUE)

ApiContinue(p) ==
    \/ ConnectRefused(p)
    \/ ConnectOpened(p)
    \/ ConnectInsert(p)
    \/ DisconnectRemove(p)
    \/ TestConnectionRefused(p)
    \/ TestConnectionOpened(p)
    \/ TestConnectionVersionFailed(p)
    \/ TestConnectionVersionOk(p)
    \/ TestConnectionClosed(p)
    \/ LookupMissing(p)
    \/ LookupFound(p)
    \/ FetchFailed(p)
    \/ FetchOk(p)

Next == \E p \in 1 .. ApiTasks : ApiCall(p) \/ ApiContinue(p)

Spec == Init /\ [][Next]_vars

\* Operations workload: every operation that takes a connection id, with
\* every argument that its control flow reads, beside connect and disconnect.
OpsCall(p) ==
    \/ \E cfg \in {c \in ConnectionConfig : c.complete} : ConnectStart(p, cfg)
    \/ \E cid \in ConnIds : DisconnectStart(p, cid)
    \/ \E o \in IdOps \ (DataOps \cup DbTypeOps), cid \in ConnIds :
          OpStart(p, o, cid, "none", TRUE)
    \/ \E o \in DataOps, cid \in ConnIds, obj \in BOOLEAN :
          OpStart(p, o, cid, "none", obj)
    \/ \E o \in DbTypeOps, cid \in ConnIds, dbt \in DatabaseType :
          OpStart(p, o, cid, dbt, TRUE)
    \/ \E cid \in ConnIds : BulkInsertEmpty(p, cid)

OpsContinue(p) ==
    \/ ConnectOpened(p)
    \/ ConnectInsert(p)
    \/ DisconnectRemove(p)
    \/ LookupMissing(p)
    \/ LookupRejected(p)
    \/ LookupFound(p)
    \/ FetchFailed(p)
    \/ FetchOk(p)
    \/ ExplainFormatError(p)
    \/ ListTablesCount(p)
    \/ ListTablesDone(p)
    \/ ExportLookupFound(p)
    \/ ExportColumnsLookup(p)
    \/ ExportColumnsFailed(p)
    \/ ExportNoColumns(p)
    \/ ExportColumnsOk(p)
    \/ ExportKeysOk(p)
    \/ ExportIndexInfo(p)
    \/ ExportLateFailed(p)
    \/ ExportDone(p)

OpsNext == \E p \in 1 .. OpsTasks : OpsCall(p) \/ OpsContinue(p)

OpsSpec == Init /\ [][OpsNext]_vars

\* Locking workload: three tasks, one engine kind that accepts every
\* connection; the operations that take the map lock in each of its shapes
\* (write, read, read inside read).
LockOps == {"execute_query", "export_table_structure"}

LockCall(p) ==
    \/ \E cid \in ConnIds :
          ConnectStart(p, [id |-> cid, db_type |-> "PostgreSQL", complete |-> TRUE])
    \/ \E cid \in ConnIds : DisconnectStart(p, cid)
    \/ \E o \in LockOps, cid \in ConnIds : OpStart(p, o, cid, "none", TRUE)

LockContinue(p) ==
    \/ ConnectOpened(p)
    \/ ConnectInsert(p)
    \/ DisconnectRemove(p)
    \/ LookupMissing(p)
    \/ LookupFound(p)
    \/ FetchFailed(p)
    \/ FetchOk(p)
    \/ ExportLookupFound(p)
    \/ ExportColumnsLookup(p)
    \/ ExportColumnsFailed(p)
    \/ ExportNoColumns(p)
    \/ ExportColumnsOk(p)
    \/ ExportKeysOk(p)
    \/ ExportLateFailed(p)
    \/ ExportDone(p)

LockNext == \E p \in 1 .. LockTasks : LockCall(p) \/ LockContinue(p)

LockSpec == Init /\ [][LockNext]_vars

\* The data and plan workloads have one caller, which makes its calls one
\* after the other.
Caller == MinOf(Tasks)

\* The configs of the data and plan workloads: the first id, as an engine of
\* every kind; the other ids stay Absent.
FirstIdConfigs ==
    {c \in ConnectionConfig : c.complete /\ c.id = MinOf(ConnIds)}

\* Data workload: the caller connects the first id as an engine of every kind
\* and calls, on every id, the operations that build a statement from their
\* arguments, with every argument value of the bounded sets.
DataCall(p) ==
    \/ \E cfg \in FirstIdConfigs : ConnectStart(p, cfg)
    \/ \E cid \in ConnIds, q \in Queries :
          DataStart(p, "execute_query", cid, "none", [query |-> q])
    \/ \E cid \in ConnIds, t \in Tables, d \in DataValues :
          DataStart(p, "insert_row", cid, "none", [table |-> t, data |-> d])
    \/ \E cid \in ConnIds, t \in Tables, rows \in BulkLists :
          BulkInsertStart(p, cid, t, rows)
    \/ \E cid \in ConnIds, t \in Tables, d \in DataValues, w \in WhereClauses :
          DataStart(p, "update_row", cid, "none",
                    [table |-> t, data |-> d, where_clause |-> w])
    \/ \E cid \in ConnIds, t \in Tables, c \in Keys, dbt \in DatabaseType :
          DataStart(p, "alter_table_drop_column", cid, dbt,
                    [table |-> t, column |-> c])

DataContinue(p) ==
    \/ ConnectOpened(p)
    \/ ConnectInsert(p)
    \/ LookupMissing(p)
    \/ LookupRejected(p)
    \/ StatementSubmit(p)
    \/ FetchFailed(p)
    \/ \E rows \in ResultSets : ExecuteQueryRows(p, rows)
    \/ \E n \in 0 .. 1 : StatementExecuted(p, n)
    \/ CommandReturn(p)

DataNext == DataCall(Caller) \/ DataContinue(Caller)

DataSpec == Init /\ [][DataNext]_vars

\* Plan workload: the caller connects the first id as an engine of every kind
\* and asks for the plan of a query, naming every engine kind; the engine
\* answers with every plan of the bounded sets.
PlanCall(p) ==
    \/ \E cfg \in FirstIdConfigs : ConnectStart(p, cfg)
    \/ \E cid \in ConnIds, analyze \in BOOLEAN, dbt \in DatabaseType :
          DataStart(p, "explain_query", cid, dbt,
                    [query |-> "SELECT 1", analyze |-> analyze])

PlanContinue(p) ==
    \/ ConnectOpened(p)
    \/ ConnectInsert(p)
    \/ LookupMissing(p)
    \/ LookupRejected(p)
    \/ StatementSubmit(p)
    \/ FetchFailed(p)
    \/ ExplainFormatError(p)
    \/ ExplainPlanned(p)
    \/ CommandReturn(p)

PlanNext == PlanCall(Caller) \/ PlanContinue(Caller)

PlanSpec == Init /\ [][PlanNext]_vars


\* Transaction workload: tasks connect and disconnect the first id and run
\* statement lists on it through execute_transaction.
TxCall(p) ==
    \/ ConnectStart(p, [id |-> MinOf(ConnIds), db_type |-> "PostgreSQL",
                        complete |-> TRUE])
    \/ DisconnectStart(p, MinOf(ConnIds))
    \/ \E queries \in QueryLists : TransactionStart(p, MinOf(ConnIds), queries)

TxContinue(p) ==
    \/ ConnectOpened(p)
    \/ ConnectInsert(p)
    \/ DisconnectRemove(p)
    \/ TransactionLookupMissing(p)
    \/ TransactionSubmit(p)
    \/ TransactionStatementFailed(p)
    \/ TransactionStatementOk(p)
    \/ CommandReturn(p)

TxNext == \E p \in 1 .. TxTasks : TxCall(p) \/ TxContinue(p)

TxSpec == Init /\ [][TxNext]_vars

\* Tunnel workload: one SshTunnel is connected with every combination of
\* credentials and every outcome of each step, local clients connect to
\* its port, and its owner drops it at any time.
TunnelOwner ==
    \/ \E password \in BOOLEAN, key \in BOOLEAN : TunnelConnect(password, key)
    \/ \E ok \in BOOLEAN : TransportConnect(ok)
    \/ \E ok \in BOOLEAN : Handshake(ok)
    \/ \E ok \in BOOLEAN : Authenticate(ok)
    \/ \E ok \in BOOLEAN : Authenticated(ok)
    \/ \E outcome \in {"ok", "bind", "local_addr"}, port \in Ports :
            BindListener(outcome, port)
    \/ SpawnAcceptLoop
    \/ TunnelDrop

AcceptLoop ==
    \/ AcceptCheck
    \/ AcceptConnection
    \/ AcceptError

Worker(c) ==
    \/ WorkerLock(c)
    \/ \E ok \in BOOLEAN : OpenChannel(c, ok)
    \/ CopyCheck(c)
    \/ \E outcome \in CopyOutcomes : CopyLocal(c, outcome)
    \/ \E outcome \in CopyOutcomes : CopyRemote(c, outcome)

TunnelNext ==
    \/ TunnelOwner
    \/ AcceptLoop
    \/ \E c \in Conns : LocalConnect(c) \/ Worker(c)

TunnelSpec == Init /\ [][TunnelNext]_vars

\* The threads are scheduled: a thread that can take its next step takes
\* it.  A local client connecting, an accept that fails and the owner's
\* calls are up to the environment.
TunnelFairSpec ==
    /\ TunnelSpec
    /\ WF_vars(AcceptCheck)
    /\ WF_vars(AcceptConnection)
    /\ \A c \in Conns : WF_vars(Worker(c))


\* ------------------------------------------------------------- properties
\* Task p takes a step.
Steps(p) == task'[p] # task[p]

\* Task p returns from its call in this step.
Returns(p) == Steps(p) /\ task'[p].pc = "idle"

Connected(m, k) == \E e \in m : e.id = k

\* C1: connect is all-or-nothing. A step of a connect that does not return
\* Ok leaves the map as it was; the step that returns Ok has put the pool
\* this connect opened under its id; and a pool that a connect still owns
\* is in no entry of the map, so no other operation sees the id half
\* connected.
C1_ConnectAllOrNothing ==
    [][/\ \A p \in Tasks :
            (Steps(p) /\ task'[p].op = "connect") =>
                IF task'[p].pc = "idle" /\ task'[p].res = "Ok"
                THEN /\ task[p].pool \in DatabasePool
                     /\ [id |-> task[p].id, pool |-> task[p].pool] \in connections'
                     /\ \A e \in connections' :
                            e.id # task[p].id => e \in connections
                     /\ \A e \in connections :
                            e.id # task[p].id => e \in connections'
                ELSE connections' = connections
       /\ \A p \in Tasks :
            (task'[p].op = "connect" /\ task'[p].pc # "idle") =>
                \A e \in connections' : e.pool # task'[p].pool
      ]_vars

\* C1 witness: one connect has failed at the engine and its id is Absent,
\* another has returned Ok and its id is Connected.
C1_Witness ==
    \E p, q \in Tasks :
        /\ task[p].pc = "idle" /\ task[p].op = "connect"
        /\ task[p].res = "EngineError"
        /\ ~Connected(connections, task[p].id)
        /\ task[q].pc = "idle" /\ task[q].op = "connect"
        /\ task[q].res = "Ok"
        /\ Connected(connections, task[q].id)

\* C2: each connection id maps to at most one handle of exactly one engine
\* kind, no handle is registered under two ids, and the step in which a
\* connect returns Ok leaves the handle that connect opened as the only
\* one of its id, also when the id was Connected before.
C2_OneHandlePerId ==
    [][/\ connections' \subseteq [id : ConnIds, pool : DatabasePool]
       /\ \A e1, e2 \in connections' :
            (e1.id = e2.id \/ e1.pool.hid = e2.pool.hid) => e1 = e2
       /\ \A p \in Tasks :
            (task[p].pc = "connect_write" /\ Returns(p)) =>
                \A e \in connections' : e.id = task[p].id => e.pool = task[p].pool
      ]_vars

\* C2 witness: two connects with the same id are in progress at once, the
\* id is already Connected, and one of them holds the write guard, about
\* to replace the handle.
C2_Witness ==
    \E p, q \in Tasks :
        /\ p # q
        /\ task[p].pc = "connect_write" /\ writer = p
        /\ task[q].pc = "connect_write" /\ task[q].id = task[p].id
        /\ Connected(connections, task[p].id)
        /\ \A e \in connections : e.id = task[p].id => e.pool # task[p].pool

\* C3: the step in which disconnect(id) returns removes exactly the entry
\* of id and returns Ok when id is Connected, and returns 'Connection not
\* found' with the map unchanged when id is Absent.
C3_DisconnectExact ==
    [][\A p \in Tasks :
        (task[p].pc = "disconnect_write" /\ Returns(p)) =>
            IF Connected(connections, task[p].id)
            THEN /\ task'[p].res = "Ok"
                 /\ connections' = {e \in connections : e.id # task[p].id}
                 /\ connections' # connections
            ELSE /\ task'[p].res = "ConnectionNotFound"
                 /\ connections' = connections
      ]_vars

\* C3 witness: a disconnect has returned Ok, its id is Absent and another
\* id is still Connected, while another disconnect has failed.
C3_Witness ==
    \E p, q \in Tasks :
        /\ task[p].pc = "idle" /\ task[p].op = "disconnect" /\ task[p].res = "Ok"
        /\ ~Connected(connections, task[p].id)
        /\ \E e \in connections : e.id # task[p].id
        /\ task[q].pc = "idle" /\ task[q].op = "disconnect"
        /\ task[q].res = "ConnectionNotFound"

\* C4: the lifecycle of an id is Absent -> Connected -> Absent and nothing
\* else, as often as callers ask. An id becomes Connected only in the step
\* in which a connect on it returns Ok and Absent only in the step in which
\* a disconnect on it returns Ok; a connect whose pool the engine opened
\* returns Ok and leaves the id Connected whatever happened to the id
\* before (a failed disconnect included); and a lookup of a Connected id
\* hands the operation the id's handle.
C4_Lifecycle ==
    [][/\ \A k \in ConnIds :
            /\ (~Connected(connections, k) /\ Connected(connections', k)) =>
                   \E p \in Tasks : /\ task[p].op = "connect" /\ task[p].id = k
                                    /\ Returns(p) /\ task'[p].res = "Ok"
            /\ (Connected(connections, k) /\ ~Connected(connections', k)) =>
                   \E p \in Tasks : /\ task[p].op = "disconnect" /\ task[p].id = k
                                    /\ Returns(p) /\ task'[p].res = "Ok"
       /\ \A p \in Tasks :
            /\ (task[p].pc = "connect_write" /\ Steps(p)) =>
                   /\ task'[p].pc = "idle" /\ task'[p].res = "Ok"
                   /\ Connected(connections', task[p].id)
            /\ (task[p].pc = "read" /\ Steps(p) /\ Connected(connections, task[p].id)) =>
                   /\ task'[p].pc = "fetch"
                   /\ [id |-> task[p].id, pool |-> task'[p].pool] \in connections
      ]_vars

\* C4 witness: a disconnect of an id has failed with 'Connection not found'
\* and a query on the same id now has the id's handle; the read guard the
\* query holds keeps the disconnect from having run after the lookup, so
\* the id was Absent, then connected, then used.
C4_Witness ==
    \E p, q \in Tasks :
        /\ task[q].pc = "idle" /\ task[q].op = "disconnect"
        /\ task[q].res = "ConnectionNotFound"
        /\ task[p].op = "execute_query" /\ task[p].pc = "fetch"
        /\ task[p].id = task[q].id
        /\ [id |-> task[p].id, pool |-> task[p].pool] \in connections

\* Positions at which a task awaits the engine's answer to a statement.
EngineCallPcs == {"fetch", "count", "gts_fetch", "pk_fetch", "idx_fetch"}

\* Positions at which a task awaits a read guard.
ReadRequestPcs == {"read", "gts_read"}

\* C5: an operation holds the shared lock on the map only while it looks
\* up the handle: a task awaiting an engine call holds no guard, and no
\* connect or disconnect waits for the exclusive lock while a query is in
\* flight.
C5_LockOnlyDuringLookup ==
    \A p \in Tasks :
        task[p].pc \in EngineCallPcs =>
            /\ readers[p] = 0
            /\ \A i \in DOMAIN waiters : waiters[i].mode # "write"

\* C6: while an execute_query is in flight, no other query or
\* introspection operation waits for its guard.
C6_QueriesDoNotWait ==
    \A p, q \in Tasks :
        (/\ p # q
         /\ task[p].op = "execute_query" /\ task[p].pc = "fetch"
         /\ task[q].pc \in ReadRequestPcs)
        => ~Waiting(q)

\* C7: every operation eventually returns; in particular, whenever some
\* operation is in progress, some operation in progress can take its next
\* step (every engine call returns, so a task awaiting one can always
\* step: only tasks awaiting the lock can be unable to).
C7_OperationsCanProceed ==
    (\E p \in Tasks : task[p].pc # "idle") =>
        ENABLED (\E p \in Tasks : LockContinue(p))

\* C8: an operation on an id whose lookup finds the id Absent returns
\* 'Connection not found' in that step, has sent no statement to any
\* engine, and leaves the map unchanged. Every operation of IdOps
\* (bulk_insert_rows with a non-empty list among them) does this lookup
\* before anything else.
C8_AbsentIdFails ==
    [][\A p \in Tasks :
        (/\ task[p].pc \in ReadRequestPcs
         /\ Steps(p)
         /\ ~Connected(connections, task[p].id))
        => /\ task[p].op \in IdOps
           /\ task[p].sent = 0
           /\ task'[p].pc = "idle"
           /\ task'[p].res = "ConnectionNotFound"
           /\ task'[p].sent = 0
           /\ connections' = connections
      ]_vars

\* C8 witness: export_table_structure has returned 'Connection not found'
\* for an Absent id while another id is Connected.
C8_Witness ==
    \E p \in Tasks :
        /\ task[p].pc = "idle" /\ task[p].op = "export_table_structure"
        /\ task[p].res = "ConnectionNotFound"
        /\ ~Connected(connections, task[p].id)
        /\ connections # {}

\* C9: no step of a test_connection, whatever its outcome, changes the map
\* or takes, waits for or releases a guard of its lock.
C9_TestConnectionFrame ==
    [][\A p \in Tasks :
        (Steps(p) /\ task'[p].op = "test_connection") =>
            /\ connections' = connections
            /\ readers' = readers
            /\ writer' = writer
            /\ waiters' = waiters
      ]_vars

\* C9 witness: two test_connection calls have returned, one with success
\* and one with the version query's error, each for an id that is
\* Connected.
C9_Witness ==
    \E p, q \in Tasks :
        /\ task[p].pc = "idle" /\ task[p].op = "test_connection"
        /\ task[p].res = "TestResultSuccess"
        /\ Connected(connections, task[p].id)
        /\ task[q].pc = "idle" /\ task[q].op = "test_connection"
        /\ task[q].res = "EngineError"
        /\ Connected(connections, task[q].id)

\* The outcomes test_connection reports as a ConnectionTestResult value.
TestResultValues == {"TestResultSuccess", "TestResultFailure"}

\* C10: a test_connection that has opened its probe returns only from the
\* step in which close() completed, and then with a result value.
C10_ProbeClosedBeforeReturn ==
    [][\A p \in Tasks :
        (/\ task[p].op = "test_connection"
         /\ task[p].pool # NoPool
         /\ Returns(p))
        => /\ task[p].pc = "test_close"
           /\ task'[p].res \in TestResultValues
      ]_vars

\* ------------------------------------------------------------- properties of the data path
\* Task p has returned from a successful call of operation o.
ReturnedOk(p, o) ==
    task[p].pc = "returned" /\ task[p].op = o /\ task[p].res = "Ok"

\* C11: a successful execute_query has submitted exactly one statement, the
\* given text as it is; its result has rows_affected = 0 whatever the
\* statement; the columns are the column names of the first row the engine
\* returned, in order, with one result row per returned row; and an empty
\* result set gives empty columns and empty rows.
C11_ExecuteQueryResult ==
    \A p \in Tasks :
        ReturnedOk(p, "execute_query") =>
            /\ task[p].stmts = <<[form |-> "{}", query |-> task[p].arg.query]>>
            /\ task[p].val.rows_affected = 0
            /\ Len(task[p].val.rows) = Len(task[p].ans.rows)
            /\ IF task[p].ans.rows = << >>
               THEN task[p].val.columns = << >>
               ELSE LET first == task[p].ans.rows[1]
                    IN /\ Len(task[p].val.columns) = Len(first)
                       /\ \A i \in DOMAIN first :
                            task[p].val.columns[i] = first[i].name

\* C11 witness: a DELETE statement has returned two rows of two columns,
\* and a query has returned no row.
C11_Witness ==
    \E p \in Tasks :
        /\ ReturnedOk(p, "execute_query")
        /\ task[p].arg.query = "DELETE FROM t"
        /\ Len(task[p].ans.rows) = 2
        /\ Len(task[p].ans.rows[1]) = 2
        /\ task[p].val.columns = <<"b", "a">>

\* C12: bulk_insert_rows with an empty row list returns its success message
\* at once, whatever the connection id, and no statement has been
\* submitted to the engine.
C12_BulkInsertEmpty ==
    [][\A p \in Tasks :
            (/\ task[p].pc = "idle"
             /\ Steps(p)
             /\ task'[p].op = "bulk_insert_rows"
             /\ task'[p].arg.rows = << >>) =>
                /\ task'[p].pc = "returned"
                /\ task'[p].res = "Ok"
                /\ task'[p].val = [form |-> "No rows to insert"]
                /\ task'[p].stmts = << >>
                /\ task'[p].sent = 0
      ]_vars

\* C12 witness: the call with the empty list has returned Ok for an id that
\* is Absent, while another id is Connected.
C12_Witness ==
    \E p \in Tasks :
        /\ ReturnedOk(p, "bulk_insert_rows")
        /\ task[p].arg.rows = << >>
        /\ task[p].stmts = << >>
        /\ ~MapHas(connections, task[p].id)
        /\ connections # {}

\* C13: bulk_insert_rows with a non-empty list of row objects on a Connected
\* id submits exactly one statement, an INSERT into the given table: its
\* column list is the keys of the first row, it has one value tuple per
\* input row in input order, and every tuple has one value per column: the
\* row's value for that column, NULL when the row has no such key; a key
\* of a later row that the first row lacks appears nowhere.
C13_BulkInsertStatement ==
    [][\A p \in Tasks :
            (Steps(p) /\ task[p].op = "bulk_insert_rows") =>
                /\ (/\ task[p].pc = "read"
                    /\ MapHas(connections, task[p].id)
                    /\ \A i \in DOMAIN task[p].arg.rows :
                            task[p].arg.rows[i].t = "object") =>
                        /\ task'[p].pc = "fetch"
                        /\ Len(task'[p].stmts) = 1
                        /\ LET st == task'[p].stmts[1]
                               rows == task[p].arg.rows
                           IN /\ st.form = "INSERT INTO {} ({}) VALUES {}"
                              /\ st.table = task[p].arg.table
                              /\ {st.columns[j] : j \in DOMAIN st.columns}
                                    = DOMAIN rows[1].f
                              /\ Len(st.columns) = Cardinality(DOMAIN rows[1].f)
                              /\ Len(st.tuples) = Len(rows)
                              /\ \A i \in DOMAIN rows :
                                    /\ Len(st.tuples[i]) = Len(st.columns)
                                    /\ \A j \in DOMAIN st.columns :
                                          st.tuples[i][j] =
                                            IF st.columns[j] \in DOMAIN rows[i].f
                                            THEN RenderValue(rows[i].f[st.columns[j]])
                                            ELSE <<"NULL">>
                /\ task[p].pc = "fetch" =>
                        /\ task'[p].pc \in {"returned", "idle"}
                        /\ task'[p].pc = "returned" =>
                                task'[p].stmts = task[p].stmts
      ]_vars

\* C13 witness: two rows were inserted; the first has the one key a, the
\* second lacks a and has b: its tuple is the single value NULL.
C13_Witness ==
    \E p \in Tasks :
        /\ ReturnedOk(p, "bulk_insert_rows")
        /\ Len(task[p].arg.rows) = 2
        /\ DOMAIN task[p].arg.rows[1].f = {"a"}
        /\ DOMAIN task[p].arg.rows[2].f = {"b"}
        /\ task[p].arg.rows[2].f["b"] # JsonNull
        /\ task[p].stmts[1].columns = <<"a">>
        /\ task[p].stmts[1].tuples[2] = <<<<"NULL">>>>

\* The number of single quotes among the first n characters of s.
QuotesBefore(s, n) == Cardinality({i \in 1 .. n : s[i] = "'"})

\* r is the string s in single quotes, every single quote of s doubled and
\* every other character as it is.
QuotedAs(s, r) ==
    /\ Len(r) = Len(s) + QuotesBefore(s, Len(s)) + 2
    /\ r[1] = "'"
    /\ r[Len(r)] = "'"
    /\ \A i \in DOMAIN s :
            /\ r[1 + i + QuotesBefore(s, i - 1)] = s[i]
            /\ s[i] = "'" => r[2 + i + QuotesBefore(s, i - 1)] = "'"

\* r is the literal of the JSON value v.
LiteralOf(v, r) ==
    IF v.t = "null" THEN r = <<"NULL">>
    ELSE IF v.t = "string" THEN QuotedAs(v.s, r)
    ELSE r = <<v.text>>

\* C14: the statement that insert_row, bulk_insert_rows or update_row has
\* submitted carries every value by one rule: null as NULL, a string in
\* single quotes with every single quote doubled and nothing else changed,
\* any other value as its JSON text; the table name, the column names and
\* the where clause are the ones given.
C14_ValueRendering ==
    \A p \in Tasks :
        (task[p].op \in DataOps /\ task[p].stmts # << >>) =>
            LET st == task[p].stmts[1]
                a == task[p].arg
            IN /\ st.table = a.table
               /\ task[p].op = "insert_row" =>
                    /\ {st.columns[j] : j \in DOMAIN st.columns} = DOMAIN a.data.f
                    /\ \A j \in DOMAIN st.columns :
                            LiteralOf(a.data.f[st.columns[j]], st.tuples[1][j])
               /\ task[p].op = "bulk_insert_rows" =>
                    \A i \in DOMAIN a.rows : \A j \in DOMAIN st.columns :
                        st.columns[j] \in DOMAIN a.rows[i].f =>
                            LiteralOf(a.rows[i].f[st.columns[j]], st.tuples[i][j])
               /\ task[p].op = "update_row" =>
                    /\ st.where_clause = a.where_clause
                    /\ {st.set_clauses[j].column : j \in DOMAIN st.set_clauses}
                            = DOMAIN a.data.f
                    /\ \A j \in DOMAIN st.set_clauses :
                            LiteralOf(a.data.f[st.set_clauses[j].column],
                                      st.set_clauses[j].value)

\* C14 witness: update_row was given a string of two single quotes and a
\* null, and its statement carries six quote characters and NULL.
C14_Witness ==
    \E p \in Tasks :
        /\ ReturnedOk(p, "update_row")
        /\ DOMAIN task[p].arg.data.f = {"a", "b"}
        /\ task[p].arg.data.f["a"] = JsonString(<<"'", "'">>)
        /\ task[p].arg.data.f["b"] = JsonNull
        /\ task[p].stmts[1].set_clauses[1].value = <<"'", "'", "'", "'", "'", "'">>
        /\ task[p].stmts[1].set_clauses[2].value = <<"NULL">>

\* C15: alter_table_drop_column on an id whose handle is a SQLite pool
\* returns the "unsupported" error, whatever db_type the caller passes, and
\* submits no statement to that pool.
C15_SqliteDropColumnUnsupported ==
    [][\A p \in Tasks :
            /\ (/\ Steps(p)
                /\ task[p].op = "alter_table_drop_column"
                /\ task[p].pc = "read"
                /\ MapHas(connections, task[p].id)
                /\ MapGet(connections, task[p].id).kind = "SQLite") =>
                    /\ task'[p].pc = "idle"
                    /\ task'[p].res = "Unsupported"
            /\ (/\ task'[p].op = "alter_table_drop_column"
                /\ task'[p].pool.kind = "SQLite") =>
                    task'[p].stmts = << >>
      ]_vars

\* The EXPLAIN statement forms of each engine.
ExplainForms(kind) ==
    IF kind = "PostgreSQL"
    THEN {"EXPLAIN (FORMAT JSON) {}",
          "EXPLAIN (FORMAT JSON, ANALYZE true, BUFFERS true) {}"}
    ELSE IF kind = "MySQL" THEN {"EXPLAIN FORMAT=JSON {}"}
    ELSE {"EXPLAIN QUERY PLAN {}"}

\* C16: explain_query on a Connected id whose handle's engine kind differs
\* from the requested kind returns "Database type mismatch" without having
\* submitted a statement; when the kinds agree it submits one statement,
\* an EXPLAIN of that engine's form over the given query, and no other
\* before it returns.
C16_ExplainDispatch ==
    [][\A p \in Tasks :
            (Steps(p) /\ task[p].op = "explain_query") =>
                /\ (task[p].pc = "read" /\ MapHas(connections, task[p].id)) =>
                        LET kind == MapGet(connections, task[p].id).kind
                        IN IF kind # task[p].dbt
                           THEN /\ task'[p].pc = "idle"
                                /\ task'[p].res = "TypeMismatch"
                                /\ task[p].stmts = << >>
                           ELSE /\ task'[p].pc = "fetch"
                                /\ Len(task'[p].stmts) = 1
                                /\ task'[p].stmts[1].form \in ExplainForms(kind)
                                /\ task'[p].stmts[1].query = task[p].arg.query
                /\ task[p].pc = "fetch" =>
                        /\ task'[p].pc \in {"returned", "idle"}
                        /\ task'[p].pc = "returned" =>
                                task'[p].stmts = task[p].stmts
      ]_vars

\* C16 witness: an explain_query that named another kind than the one its
\* id is connected as has returned the mismatch error.
C16_Witness ==
    \E p \in Tasks :
        /\ task[p].pc = "idle"
        /\ task[p].op = "explain_query"
        /\ task[p].res = "TypeMismatch"
        /\ MapHas(connections, task[p].id)

\* The messages of a returned plan, as a set.
Messages(p) ==
    {task[p].val.recommendations[i] : i \in DOMAIN task[p].val.recommendations}

\* C17: for a plan of a single childless step of kind Seq Scan on table
\* orders with 50000 estimated rows, the recommendations contain the index
\* suggestion for orders and the high-row-count warning, and not the
\* "well optimized" message.
C17_SeqScanOrders ==
    \A p \in Tasks :
        (/\ ReturnedOk(p, "explain_query")
         /\ Len(task[p].val.plan_steps) = 1
         /\ task[p].val.plan_steps[1].step_type = "Seq Scan"
         /\ task[p].val.plan_steps[1].table_name = Some("orders")
         /\ task[p].val.plan_steps[1].rows = Some(50000)
         /\ task[p].val.plan_steps[1].children = << >>) =>
            /\ [form |-> "Consider adding an index to table '{}' to avoid sequential scan",
                table |-> "orders"] \in Messages(p)
            /\ [form |-> "High row count ({}) detected. Consider adding WHERE clause to filter data",
                rows |-> 50000] \in Messages(p)
            /\ [form |-> "Query appears to be well optimized"] \notin Messages(p)

\* C18: the recommendations returned for a plan hold no message twice,
\* whether equal messages arise at sibling steps, at a step and one of its
\* descendants, or in two different subtrees.
C18_NoDuplicateMessages ==
    \A p \in Tasks :
        ReturnedOk(p, "explain_query") =>
            \A i, j \in DOMAIN task[p].val.recommendations :
                i # j => task[p].val.recommendations[i]
                            # task[p].val.recommendations[j]

\* C18 witness: a plan whose root and both of whose children are sequential
\* scans of orders, each raising the same index suggestion, was returned.
C18_Witness ==
    \E p \in Tasks :
        /\ ReturnedOk(p, "explain_query")
        /\ Len(task[p].val.plan_steps) = 1
        /\ LET root == task[p].val.plan_steps[1]
           IN /\ root.step_type = "Seq Scan"
              /\ root.table_name = Some("orders")
              /\ Len(root.children) = 2
              /\ \A c \in DOMAIN root.children :
                    /\ root.children[c].step_type = "Seq Scan"
                    /\ root.children[c].table_name = Some("orders")
                    /\ root.children[c].rows = Some(50000)
        /\ [form |-> "Consider adding an index to table '{}' to avoid sequential scan",
            table |-> "orders"] \in Messages(p)

\* One of rules 1-3 fires at the step: a sequential scan of a known table,
\* more than 10000 estimated rows, or a cost above 1000.
RuleFires(step) ==
    \/ step.step_type \in {"Seq Scan", "ALL"} /\ step.table_name.some
    \/ step.rows.some /\ step.rows.v > 10000
    \/ step.cost.some /\ step.cost.v > 1000

\* A rule fires at some step of the list or below it.
RECURSIVE RuleFiresIn(_)
RuleFiresIn(steps) ==
    \E i \in DOMAIN steps :
        RuleFires(steps[i]) \/ RuleFiresIn(steps[i].children)

\* C19: the "well optimized" message is among the recommendations of a
\* plan exactly when no rule fires at any step of the plan at any depth,
\* and then it is the only message.
C19_WellOptimizedIffNoRule ==
    \A p \in Tasks :
        ReturnedOk(p, "explain_query") =>
            LET wo == [form |-> "Query appears to be well optimized"]
            IN /\ wo \in Messages(p) <=> ~RuleFiresIn(task[p].val.plan_steps)
               /\ wo \in Messages(p) => task[p].val.recommendations = <<wo>>

\* The task whose record is t is inside a call of execute_transaction, or
\* at its return.
InTransaction(t) == t.op = "execute_transaction" /\ t.pc # "idle"

\* C20: execute_transaction submits the given statements one at a time, in
\* list order, on its one connection id; at the first statement that fails
\* it returns failure, so that no later statement is submitted, while the
\* statements before it have been executed and nothing is submitted to
\* undo them; when none fails it returns success after all have been
\* executed.
C20_TransactionSequential ==
    [][\A p \in Tasks :
            /\ InTransaction(task'[p]) =>
                  LET t == task'[p]
                      queries == t.arg.queries
                  IN /\ Len(t.stmts) <= Len(queries)
                     /\ \A i \in DOMAIN t.stmts :
                            t.stmts[i] = [form |-> "{}", query |-> queries[i]]
                     /\ t.ans.executed \in {Len(t.stmts) - 1, Len(t.stmts)}
                     /\ t.pc = "tx_read" => t.ans.executed = Len(t.stmts)
                     /\ (t.pc = "returned" /\ t.res = "Ok") =>
                            /\ Len(t.stmts) = Len(queries)
                            /\ t.ans.executed = Len(queries)
                     /\ t.pc = "returned" => t.res \in {"Ok", "TransactionFailed"}
            /\ (Steps(p) /\ InTransaction(task[p])) =>
                  /\ task[p].pc = "returned" => task'[p].pc = "idle"
                  /\ InTransaction(task'[p]) =>
                        /\ task'[p].id = task[p].id
                        /\ task'[p].arg = task[p].arg
                        /\ task'[p].ans.executed >= task[p].ans.executed
                        /\ Len(task'[p].stmts) \in
                                {Len(task[p].stmts), Len(task[p].stmts) + 1}
                        /\ \A i \in DOMAIN task[p].stmts :
                                task'[p].stmts[i] = task[p].stmts[i]
                        /\ (/\ task[p].pc = "tx_fetch"
                            /\ task'[p].ans.executed = task[p].ans.executed) =>
                                /\ task'[p].pc = "returned"
                                /\ task'[p].res = "TransactionFailed"
      ]_vars

\* C20 witness: of three statements the second has failed: the call has
\* returned failure, the first statement is executed, the third was never
\* submitted.
C20_Witness ==
    \E p \in Tasks :
        /\ task[p].op = "execute_transaction"
        /\ task[p].pc = "returned"
        /\ task[p].res = "TransactionFailed"
        /\ Len(task[p].arg.queries) = 3
        /\ Len(task[p].stmts) = 2
        /\ task[p].ans.executed = 1
        /\ MapHas(connections, task[p].id)

\* The upper-case spelling of a type name.
UpperCase(type_name) == IF type_name = "integer" THEN "INTEGER" ELSE type_name

\* The rows of an answer with every type name in upper case.
UpperCased(rows) ==
    [r \in DOMAIN rows |->
        [i \in DOMAIN rows[r] |-> [rows[r][i] EXCEPT !.type = UpperCase(@)]]]

\* C26: the decoder reads a type name whatever its case: the result of
\* execute_query is the one it would be with every type name of the
\* answer spelled in upper case.
C26_TypeNameCaseInsensitive ==
    \A p \in Tasks :
        ReturnedOk(p, "execute_query") =>
            task[p].val = process_rows(UpperCased(task[p].ans.rows))

\* The step is the node's: its kind, table, rows, cost, filter and index
\* are the node's fields, and its children are the steps of the node's
\* "Plans", as many and in the same order.
RECURSIVE StepMirrorsNode(_, _)
StepMirrorsNode(step, node) ==
    /\ step.step_type = (IF node.node_type.some THEN node.node_type.v ELSE "Unknown")
    /\ step.table_name = node.relation_name
    /\ step.rows = node.plan_rows
    /\ step.cost = node.total_cost
    /\ step.filter_condition = node.filter
    /\ step.index_used = node.index_name
    /\ Len(step.children) = Len(node.plans)
    /\ \A i \in DOMAIN node.plans : StepMirrorsNode(step.children[i], node.plans[i])

\* C28: the PostgreSQL translator rebuilds the plan tree one to one and in
\* order: the plan returned for a PostgreSQL answer is exactly one step,
\* the root node's, and at every depth a step has its node's fields
\* ("Unknown" for a missing kind, None for a missing optional) and one
\* child per node of "Plans", in the order of "Plans".
C28_PostgresPlanMirrorsTree ==
    \A p \in Tasks :
        (/\ ReturnedOk(p, "explain_query")
         /\ task[p].pool.kind = "PostgreSQL"
         /\ task[p].ans.plans # << >>) =>
            /\ Len(task[p].val.plan_steps) = 1
            /\ StepMirrorsNode(task[p].val.plan_steps[1], task[p].ans.plans[1])

\* C28 witness: a returned plan of three levels: a Seq Scan, under it a
\* node without a kind that filters, under that an index scan.
C28_Witness ==
    \E p \in Tasks :
        /\ ReturnedOk(p, "explain_query")
        /\ task[p].pool.kind = "PostgreSQL"
        /\ Len(task[p].val.plan_steps) = 1
        /\ LET root == task[p].val.plan_steps[1]
           IN /\ root.step_type = "Seq Scan"
              /\ Len(root.children) = 1
              /\ root.children[1].step_type = "Unknown"
              /\ root.children[1].filter_condition = Some("(id > 1)")
              /\ Len(root.children[1].children) = 1
              /\ root.children[1].children[1].index_used = Some("orders_pkey")

\* C29: bulk_insert_rows with an empty row list returns success without
\* looking the id up: the call returns Ok in its first step whether or not
\* the id is in the map, and that step leaves the map and the lock as they
\* are, no guard taken and none awaited; any other operation that reaches
\* its lookup with an id that is not in the map returns Connection not
\* found.
C29_EmptyBulkInsertSkipsLookup ==
    [][\A p \in Tasks :
            /\ (/\ task[p].pc = "idle"
                /\ Steps(p)
                /\ task'[p].op = "bulk_insert_rows"
                /\ task'[p].arg.rows = << >>) =>
                    /\ task'[p].pc = "returned"
                    /\ task'[p].res = "Ok"
                    /\ task'[p].pool = NoPool
                    /\ UNCHANGED <<connections, readers, writer, waiters>>
            /\ (/\ task[p].pc = "read"
                /\ Steps(p)
                /\ ~MapHas(connections, task[p].id)) =>
                    /\ task'[p].pc = "idle"
                    /\ task'[p].res = "ConnectionNotFound"
                    /\ task[p].op = "bulk_insert_rows" => task[p].arg.rows # << >>
      ]_vars

\* C29 witness: the call with the empty list has returned Ok while the map
\* is empty and nobody holds or awaits the lock.
C29_Witness ==
    \E p \in Tasks :
        /\ ReturnedOk(p, "bulk_insert_rows")
        /\ task[p].arg.rows = << >>
        /\ connections = {}
        /\ \A t \in Tasks : readers[t] = 0
        /\ writer = NoTask
        /\ waiters = << >>

\* ------------------------------------------------------------- properties of the tunnel
\* The steps connect has logged, by name.
Logged(step) == \E i \in DOMAIN tunnel.log : tunnel.log[i].step = step

\* connect has tried a method of authentication.
AuthAttempted == Logged("userauth_password") \/ Logged("userauth_pubkey_file")

\* C21: tunnel connect authenticates by exactly one method.  When the
\* password and the key are both supplied, or neither is, no authentication
\* is attempted, no port is bound, no accept loop is spawned, and once
\* connect is past the handshake it has failed with "No SSH authentication
\* method provided".
C21_ExactlyOneMethod ==
    (tunnel.password = tunnel.key) =>
        /\ ~AuthAttempted
        /\ ~Logged("bind")
        /\ tunnel.loops = 0
        /\ tunnel.pc \in {"new", "transport", "handshake", "authenticate", "failed"}
        /\ (tunnel.pc = "failed" /\ Logged("handshake")
                /\ tunnel.log[Len(tunnel.log)].ok) =>
                tunnel.err = "No SSH authentication method provided"

\* The place of a step in the order of establishment.
StepRank(step) ==
    CASE step = "transport" -> 1
      [] step = "handshake" -> 2
      [] step \in {"userauth_password", "userauth_pubkey_file"} -> 3
      [] step = "authenticated" -> 4
      [] step = "bind" -> 5
      [] step = "spawn" -> 6

\* C22: tunnel establishment takes its steps in the order transport,
\* handshake, authentication, bind, spawn, each once.  A failed step is the
\* last: connect has returned an error, for good, no accept loop was
\* spawned and no SshTunnel exists.  When connect has succeeded every step
\* has, exactly one accept loop was spawned, and the port it reports is
\* the one the loop's listener is bound to.
C22_EstablishmentOrder ==
    [][/\ \A i \in DOMAIN tunnel'.log :
            /\ StepRank(tunnel'.log[i].step) = i
            /\ ~tunnel'.log[i].ok =>
                    /\ i = Len(tunnel'.log)
                    /\ tunnel'.pc = "failed"
       /\ tunnel'.pc = "failed" =>
            /\ tunnel'.loops = 0
            /\ tunnel'.accept = "none"
            /\ tunnel'.listener # "bound"
            /\ tunnel'.err # "none"
       /\ tunnel.pc = "failed" => tunnel'.pc = "failed"
       /\ (tunnel'.pc \in {"open", "dropped"}) =>
            /\ Len(tunnel'.log) = 6
            /\ tunnel'.loops = 1
            /\ tunnel'.accept # "none"
            /\ tunnel'.local_port = tunnel'.port
            /\ tunnel'.port \in Ports
            /\ tunnel'.err = "none"
       /\ (tunnel.pc = "spawn" /\ tunnel'.pc = "open") =>
            /\ tunnel'.listener = "bound"
            /\ tunnel'.accept = "check"
      ]_vars

\* C22 witness: transport, handshake and authentication have succeeded and
\* the bind has failed: connect has returned the error and nothing runs.
C22_Witness ==
    /\ tunnel.pc = "failed"
    /\ Len(tunnel.log) = 5
    /\ tunnel.log[5] = [step |-> "bind", ok |-> FALSE]
    /\ tunnel.loops = 0

\* Every thread of the tunnel has ended and the listener is closed.
TunnelStopped ==
    /\ tunnel.accept = "exited"
    /\ tunnel.listener = "released"
    /\ \A c \in Conns : relay[c].pc \in {"none", "done", "error"}

\* C23: after the SshTunnel is dropped the flag is false for good, and the
\* accept loop and every copy loop eventually end and the listener is
\* released, wherever the threads were at the drop.
C23_DropStopsTunnel ==
    /\ [](tunnel.pc = "dropped" => ~tunnel.running)
    /\ (tunnel.pc = "dropped") ~> TunnelStopped

\* C24: a local connection that reaches the listener after the drop is
\* never accepted and gets no worker.
C24_NoAcceptAfterDrop ==
    \A c \in Conns :
        relay[c].late => (relay[c].state # "accepted" /\ relay[c].pc = "none")

\* C25: a worker that ends in an error ends alone: in that step the accept
\* loop stays where it is, the flag keeps its value and the other
\* connections are untouched; the tunnel is as it was except that the
\* session mutex, which the worker held, is free for the next worker.
C25_WorkerErrorIsLocal ==
    [][\A c \in Conns :
            (relay[c].pc # "error" /\ relay'[c].pc = "error") =>
                /\ tunnel.holder = c
                /\ tunnel' = [tunnel EXCEPT !.holder = NoWorker]
                /\ \A b \in Conns \ {c} : relay'[b] = relay[b]
      ]_vars

\* C25 witness: a connection's worker has ended in an error, and a
\* connection accepted after it has relayed bytes both ways over the open
\* tunnel.
C25_Witness ==
    \E c, b \in Conns :
        /\ c < b
        /\ relay[c].pc = "error"
        /\ relay[b].up /\ relay[b].down
        /\ relay[b].pc \in {"check", "local", "remote"}
        /\ tunnel.pc = "open"
        /\ tunnel.accept = "accept"

\* C27: the session mutex is held only while a channel is created, so a
\* worker in its copy loop does not hold it and does not keep another
\* worker from opening its channel.
C27_MutexOnlyForChannel ==
    \A c \in Conns :
        relay[c].pc \in {"check", "local", "remote"} =>
            /\ tunnel.holder # c
            /\ \A b \in Conns : relay[b].pc = "lock" => ENABLED WorkerLock(b)

\* Connections accept returned after the drop.
AcceptedAfterDrop == {c \in Conns : relay[c].after_drop}

\* C30: after the drop the accept loop accepts at most one more connection,
\* and that connection's worker leaves its copy loop at the first look at
\* the flag: it never reads or writes, and no byte goes either way.
C30_AtMostOneAfterDrop ==
    /\ Cardinality(AcceptedAfterDrop) <= 1
    /\ \A c \in AcceptedAfterDrop :
            /\ ~relay[c].up /\ ~relay[c].down
            /\ relay[c].pc \in {"lock", "channel", "check", "done", "error"}

\* C30 witness: a connection accepted after the drop got the mutex and its
\* channel, saw the flag and ended, and the accept loop has exited.
C30_Witness ==
    \E c \in AcceptedAfterDrop :
        /\ relay[c].pc = "done"
        /\ tunnel.accept = "exited"
        /\ \E b \in Conns : b < c /\ relay[b].up /\ ~relay[b].after_drop

====
